---- MODULE Spec2Model ----
(***************************************************************************)
(* Capitalisation table and exit waterfall of the Yapily financial model   *)
(* (src/cap_table.py, src/exit_waterfall.py).                              *)
(*                                                                         *)
(* Arithmetic.  The program computes in Python floats.  The model computes *)
(* the same expressions exactly, over the rationals, so that an equation   *)
(* of the program is either an identity of the formulas or it is not; the  *)
(* rounding error of a float is outside the model.  A float literal is the *)
(* decimal fraction it is written as (0.15 is 15/100).  TLC's integers are *)
(* 32 bits wide and the share counts need more, so a natural number is a   *)
(* little-endian sequence of base-1000 limbs without leading zero limbs   *)
(* (<<>> is 0) and a rational is a record [neg, n, d] in lowest terms.     *)
(***************************************************************************)
EXTENDS Integers, Sequences, FiniteSets, Bags, TLC

\* ------------------------------------------------------------------------
\* Natural numbers of arbitrary size.  The evaluation is kept shallow: a
\* carry is looked up in the limbs below, a sum is the cardinality of a bag,
\* and the loops (long division, Euclid's algorithm) run several steps per
\* level of recursion, each step evaluated before the next.  A value that
\* is used more than once is the parameter of an operator.
\* ------------------------------------------------------------------------
Base == 10 * 10 * 10

RECURSIVE NFromInt(_)
NFromInt(i) == IF i = 0 THEN <<>> ELSE <<i % Base>> \o NFromInt(i \div Base)

\* the value of a number of at most three limbs, which fits TLC's integers
NToInt(a) ==
    (IF Len(a) >= 1 THEN a[1] ELSE 0)
    + (IF Len(a) >= 2 THEN a[2] * Base ELSE 0)
    + (IF Len(a) >= 3 THEN a[3] * Base * Base ELSE 0)

Limb(a, i) == IF i >= 1 /\ i <= Len(a) THEN a[i] ELSE 0

\* the index of the most significant nonzero limb among 1..i, or 0
RECURSIVE NTop(_, _)
NTop(a, i) == IF i = 0 THEN 0 ELSE IF a[i] # 0 THEN i ELSE NTop(a, i - 1)

\* without the leading zero limbs
NTrim(a) == SubSeq(a, 1, NTop(a, Len(a)))

\* the carry out of limb i of the limb sums s, each below 2 * Base - 1
RECURSIVE NCarry(_, _)
NCarry(s, i) == IF i = 0 THEN 0
                ELSE IF s[i] >= Base THEN 1
                ELSE IF s[i] < Base - 1 THEN 0
                ELSE NCarry(s, i - 1)

NCarried(s) ==
    NTrim([i \in 1..Len(s) |-> (s[i] + NCarry(s, i - 1)) % Base])

NAdd(a, b) ==
    NCarried([i \in 1..((IF Len(a) > Len(b) THEN Len(a) ELSE Len(b)) + 1) |->
                 Limb(a, i) + Limb(b, i)])

\* the borrow out of limb i of a - b
RECURSIVE NBorrow(_, _, _)
NBorrow(a, b, i) == IF i = 0 THEN 0
                    ELSE IF a[i] < Limb(b, i) THEN 1
                    ELSE IF a[i] > Limb(b, i) THEN 0
                    ELSE NBorrow(a, b, i - 1)

\* a - b for a >= b
NSub(a, b) ==
    NTrim([i \in 1..Len(a) |->
              (a[i] - Limb(b, i) - NBorrow(a, b, i - 1) + Base) % Base])

\* -1, 0, 1 as a < b, a = b, a > b, for a and b of the same length
RECURSIVE NCmpFrom(_, _, _)
NCmpFrom(a, b, i) ==
    IF i = 0 THEN 0
    ELSE IF a[i] < b[i] THEN -1
    ELSE IF a[i] > b[i] THEN 1
    ELSE NCmpFrom(a, b, i - 1)

NCmp(a, b) == IF Len(a) < Len(b) THEN -1
              ELSE IF Len(a) > Len(b) THEN 1
              ELSE NCmpFrom(a, b, Len(a))

NLt(a, b) == NCmp(a, b) < 0

\* a * k for 0 <= k < Base
NMulSmall(a, k) ==
    IF k = 0 \/ a = <<>> THEN <<>>
    ELSE NCarried([i \in 1..(Len(a) + 1) |->
                      ((Limb(a, i) * k) % Base)
                      + ((Limb(a, i - 1) * k) \div Base)])

\* the number whose limb m is col[m], each col[m] below Base * Base * Base:
\* the low limbs and the carries into the next limb, then the carries into
\* the limb after it
NFromColumns(col) ==
    NAdd(NCarried([m \in 1..Len(col) |->
                      (col[m] % Base)
                      + (IF m > 1 THEN (col[m - 1] \div Base) % Base ELSE 0)]),
         NTrim([m \in 1..Len(col) |->
                   IF m > 2 THEN col[m - 2] \div (Base * Base) ELSE 0]))

\* a * b: the sum of the limb products of each column, then the carries
NMul(a, b) ==
    IF a = <<>> \/ b = <<>> THEN <<>>
    ELSE NFromColumns(
             [m \in 1..(Len(a) + Len(b)) |->
                 BagCardinality(
                     [i \in {j \in 1..Len(a) :
                                /\ m + 1 - j >= 1
                                /\ m + 1 - j <= Len(b)
                                /\ a[j] * b[m + 1 - j] > 0} |->
                         a[i] * b[m + 1 - i]])])

\* the largest k in lo..hi with k * b <= rem, given lo * b <= rem
RECURSIVE NQuotDigit(_, _, _, _)
NQuotDigit(rem, b, lo, hi) ==
    IF lo >= hi THEN lo
    ELSE IF NCmp(NMulSmall(b, (lo + hi + 1) \div 2), rem) <= 0
    THEN NQuotDigit(rem, b, (lo + hi + 1) \div 2, hi)
    ELSE NQuotDigit(rem, b, lo, ((lo + hi + 1) \div 2) - 1)

\* floor(rem / b) given the leading limbs bt of b and rt of rem, which
\* bound the quotient to at most three candidates
NQuotBetween(rem, b, bt, rt) ==
    NQuotDigit(rem, b, rt \div (bt + 1),
               IF (rt + 1) \div bt > Base - 1 THEN Base - 1
               ELSE (rt + 1) \div bt)

\* floor(rem / b) for rem < b * Base
NQuot(rem, b) ==
    IF NLt(rem, b) THEN 0
    ELSE IF Len(b) = 1 THEN NToInt(rem) \div b[1]
    ELSE NQuotBetween(rem, b, NToInt(SubSeq(b, Len(b) - 1, Len(b))),
                      NToInt(SubSeq(rem, Len(b) - 1, Len(rem))))

\* the step of the long division by b that finds the quotient limb k of
\* the remainder rem
NDivStepBy(b, p, rem, k) ==
    [i |-> p.i - 1,
     q |-> NTrim(<<k>> \o p.q),
     r |-> NSub(rem, NMulSmall(b, k))]

NDivStepOf(b, p, rem) == NDivStepBy(b, p, rem, NQuot(rem, b))

\* one step of the long division of a by b: bring down limb p.i of a
NDivStep(a, b, p) ==
    IF p.i = 0 THEN p ELSE NDivStepOf(b, p, NTrim(<<a[p.i]>> \o p.r))

\* Long division and Euclid's algorithm, which divides in every step, are
\* the parts of one recursive operator; op names the part:
\*   "DivStep"  one step of the long division of a by b from the state p
\*   "DivLoop"  the steps that are left from the state p
\*   "DivMod"   quotient and remainder of a by b # 0
\*   "Div"      a / b when b divides a
\*   "GcdStep"  one step of Euclid's algorithm on the pair p
\*   "GcdSteps" four of them
\*   "GcdLoop"  the steps that are left
\*   "Gcd"      the greatest common divisor g of a and b
\*   "Lowest"   <<a / g, b / g, g>>
\*   "Cross"    the fractions a[1] / a[2] and b[1] / b[2] in lowest terms
\*              cancelled crosswise: <<a[1] / g1, b[1] / g2, a[2] / g2,
\*              b[2] / g1>>, g1 = gcd(a[1], b[2]), g2 = gcd(b[1], a[2])
RECURSIVE NLong(_, _, _, _)
NLong(op, a, b, p) ==
    CASE op = "DivStep" -> NDivStep(a, b, p)
      [] op = "DivLoop" ->
           LET p1 == NLong("DivStep", a, b, p)
               p2 == NLong("DivStep", a, b, p1)
               p3 == NLong("DivStep", a, b, p2)
               p4 == NLong("DivStep", a, b, p3)
           IN  IF /\ p1.i >= 0
                  /\ p2.i >= 0
                  /\ p3.i >= 0
                  /\ p4.i > 0
               THEN NLong("DivLoop", a, b, p4)
               ELSE p4
      [] op = "DivMod" ->
           IF NLt(a, b) THEN [q |-> <<>>, r |-> a]
           ELSE LET s == NLong("DivLoop", a, b,
                               [i |-> Len(a) - Len(b) + 1, q |-> <<>>,
                                r |-> SubSeq(a, Len(a) - Len(b) + 2, Len(a))])
                IN  [q |-> s.q, r |-> s.r]
      [] op = "Div" ->
           IF b = <<1>> THEN a ELSE NLong("DivMod", a, b, <<>>).q
      [] op = "GcdStep" ->
           IF p[2] = <<>> THEN p
           ELSE <<p[2], NLong("DivMod", p[1], p[2], <<>>).r>>
      [] op = "GcdSteps" ->
           LET p1 == NLong("GcdStep", <<>>, <<>>, p)
               p2 == NLong("GcdStep", <<>>, <<>>, p1)
               p3 == NLong("GcdStep", <<>>, <<>>, p2)
               p4 == NLong("GcdStep", <<>>, <<>>, p3)
           IN  IF /\ Len(p1[2]) >= 0
                  /\ Len(p2[2]) >= 0
                  /\ Len(p3[2]) >= 0
               THEN p4
               ELSE p
      [] op = "GcdLoop" ->
           LET p1 == NLong("GcdSteps", <<>>, <<>>, p)
               p2 == NLong("GcdSteps", <<>>, <<>>, p1)
               p3 == NLong("GcdSteps", <<>>, <<>>, p2)
           IN  IF /\ Len(p1[2]) >= 0
                  /\ Len(p2[2]) >= 0
                  /\ p3[2] # <<>>
               THEN NLong("GcdLoop", <<>>, <<>>, p3)
               ELSE p3[1]
      [] op = "Gcd" ->
           IF a = <<>> THEN b
           ELSE IF b = <<>> THEN a
           ELSE IF a = <<1>> \/ b = <<1>> THEN <<1>>
           ELSE NLong("GcdLoop", <<>>, <<>>, <<a, b>>)
      [] op = "Lowest" ->
           LET g == NLong("Gcd", a, b, <<>>)
           IN  IF Len(g) >= 0
               THEN <<NLong("Div", a, g, <<>>), NLong("Div", b, g, <<>>), g>>
               ELSE <<>>
      [] op = "Cross" ->
           LET l1 == NLong("Lowest", a[1], b[2], <<>>)
               l2 == NLong("Lowest", b[1], a[2], <<>>)
           IN  IF Len(l1) >= 0 /\ Len(l2) >= 0
               THEN <<l1[1], l2[1], l2[2], l1[2]>>
               ELSE <<>>

\* quotient and remainder of a by b # 0
NDivMod(a, b) == NLong("DivMod", a, b, <<>>)

NGcd(a, b) == NLong("Gcd", a, b, <<>>)

\* ------------------------------------------------------------------------
\* Rationals in lowest terms: [neg, n, d] is n / d, negated if neg
\* ------------------------------------------------------------------------
QInLowest(neg, l) == [neg |-> neg, n |-> l[1], d |-> l[2]]

QNorm(neg, n, d) ==
    IF n = <<>> THEN [neg |-> FALSE, n |-> <<>>, d |-> <<1>>]
    ELSE QInLowest(neg, NLong("Lowest", n, d, <<>>))

Abs(i) == IF i < 0 THEN -i ELSE i

\* the rational a / b of two integers, b # 0
QF(a, b) == QNorm((a < 0) # (b < 0), NFromInt(Abs(a)), NFromInt(Abs(b)))
\* the integer i
Q(i) == [neg |-> i < 0, n |-> NFromInt(Abs(i)), d |-> <<1>>]
Zero == Q(0)
One == Q(1)

QIsZero(x) == x.n = <<>>
QPos(x) == x.n # <<>> /\ ~x.neg
QNegative(x) == x.neg

QNeg(x) == IF x.n = <<>> THEN x ELSE [x EXCEPT !.neg = ~x.neg]

\* x + y.  l is <<x.d / g, y.d / g, g>> for the common factor g of the
\* denominators, t the numerator over x.d * y.d / g with its sign sg, and
\* r is <<t / g2, g / g2, g2>> for the factor g2 that t shares with g.
QAddInLowest(sg, t, l, r) ==
    IF t = <<>> THEN [neg |-> FALSE, n |-> <<>>, d |-> <<1>>]
    ELSE [neg |-> sg, n |-> r[1], d |-> NMul(l[1], NMul(l[2], r[2]))]

QAddSigned(sg, t, l) == QAddInLowest(sg, t, l, NLong("Lowest", t, l[3], <<>>))

QAddTerms(x, y, l, a, b) ==
    QAddSigned(IF x.neg = y.neg THEN x.neg
               ELSE IF NCmp(a, b) < 0 THEN y.neg ELSE x.neg,
               IF x.neg = y.neg THEN NAdd(a, b)
               ELSE IF NCmp(a, b) < 0 THEN NSub(b, a) ELSE NSub(a, b),
               l)

QAddOver(x, y, l) == QAddTerms(x, y, l, NMul(x.n, l[2]), NMul(y.n, l[1]))

QAdd(x, y) == QAddOver(x, y, NLong("Lowest", x.d, y.d, <<>>))

QSub(x, y) == QAdd(x, QNeg(y))

\* the product of the fractions c cancelled crosswise
QProduct(neg, c) ==
    [neg |-> neg, n |-> NMul(c[1], c[2]), d |-> NMul(c[3], c[4])]

\* (xn / xd) * (yn / yd) of fractions in lowest terms
QMulParts(neg, xn, xd, yn, yd) ==
    IF xn = <<>> \/ yn = <<>> THEN [neg |-> FALSE, n |-> <<>>, d |-> <<1>>]
    ELSE QProduct(neg, NLong("Cross", <<xn, xd>>, <<yn, yd>>, <<>>))

QMul(x, y) == QMulParts(x.neg # y.neg, x.n, x.d, y.n, y.d)
\* x / y for y # 0
QDiv(x, y) == QMulParts(x.neg # y.neg, x.n, x.d, y.d, y.n)

\* -1, 0, 1 as x < y, x = y, x > y
QCmp(x, y) ==
    IF x.neg # y.neg THEN (IF x.neg THEN -1 ELSE 1)
    ELSE (IF x.neg THEN -1 ELSE 1) * NCmp(NMul(x.n, y.d), NMul(y.n, x.d))

QLt(x, y) == QCmp(x, y) < 0
QLe(x, y) == QCmp(x, y) <= 0

RECURSIVE QPowNat(_, _)
QPowNat(x, k) == IF k = 0 THEN One ELSE QMul(x, QPowNat(x, k - 1))
\* x ** k for an integer k (x # 0 when k < 0)
QPow(x, k) == IF k >= 0 THEN QPowNat(x, k) ELSE QDiv(One, QPowNat(x, -k))

\* the multiple of 1 / 100 nearest to x, given h, the quotient and the
\* remainder of 100 * x.n by x.d: a tie goes to the even multiple
QRoundHalfEven(x, h) ==
    QNorm(x.neg,
          IF \/ NCmp(NAdd(h.r, h.r), x.d) > 0
             \/ /\ NCmp(NAdd(h.r, h.r), x.d) = 0
                /\ h.q # <<>>
                /\ Head(h.q) % 2 = 1
          THEN NAdd(h.q, <<1>>)
          ELSE h.q,
          <<100>>)

\* round(x, 2)
QRound2(x) == QRoundHalfEven(x, NDivMod(NMulSmall(x.n, 100), x.d))

\* ------------------------------------------------------------------------
\* src/config_assumptions.py: SeriesCAssumptions, ExitAssumptions and
\* HistoricalFunding, with the defaults of the dataclasses and the other
\* values the model explores
\* ------------------------------------------------------------------------
\* <<equity_pct, debt_pct, convertible_pct>>: the defaults, and a mix the
\* dashboard accepts with a warning
StructureMixes ==
    {<<QF(70, 100), QF(15, 100), QF(15, 100)>>,
     <<QF(70, 100), QF(20, 100), QF(20, 100)>>}
ValuationBases == {"arr", "ebitda", "higher_of_arr_or_ebitda"}

SeriesCAssumptions(mix) ==
    [amount |-> Q(11000000),
     close_year |-> 2026,
     equity_pct |-> mix[1],
     debt_pct |-> mix[2],
     convertible_pct |-> mix[3],
     debt_interest_rate |-> QF(10, 100),
     debt_repayment_profile |-> "rolled_up",
     convertible_interest_rate |-> QF(8, 100),
     convertible_repayment_profile |-> "rolled_up",
     pre_money_arr_multiple |-> Q(6)]

ExitAssumptions(basis) ==
    [exit_year |-> 2030,
     valuation_basis |-> basis,
     arr_multiple |-> QF(85, 10),
     ebitda_multiple |-> Q(20)]

HistoricalFunding ==
    [cln_2024 |-> Q(6000000),
     cln_2024_interest |-> QF(8, 100),
     cln_2024_maturity |-> 2029,
     cln_2024_discount |-> QF(20, 100),
     cln_2025 |-> Q(4000000),
     cln_2025_interest |-> QF(8, 100),
     cln_2025_maturity |-> 2030,
     cln_2025_discount |-> QF(20, 100)]

ModelAssumptions ==
    {[series_c |-> SeriesCAssumptions(mix),
      exit |-> ExitAssumptions(basis),
      historical_funding |-> HistoricalFunding] :
        mix \in StructureMixes, basis \in ValuationBases}

\* ------------------------------------------------------------------------
\* State
\* ------------------------------------------------------------------------
VARIABLES
    assumptions,               \* the ModelAssumptions shared by both classes
    rounds,                    \* CapTableManager.rounds
    cap_table_history,         \* CapTableManager.cap_table_history
    pre_series_c_shares,       \* CapTableManager.pre_series_c_shares
    pre_series_c_option_pool,  \* CapTableManager.pre_series_c_option_pool
    exit_waterfall_df,         \* FinancialModel.exit_waterfall_df: the rows
                               \* calculate_waterfall returned, or <<>>
    waterfall_args,            \* the arguments of that call, or <<>>
    valuation_data,            \* what calculate_exit_valuation returned in
                               \* that call, or <<>>
    raised,                    \* exception raised by the last call, or "none"
    pl_df,                     \* FinancialModel.pl_df: the rows of the
                               \* projected P&L, or <<>> (None)
    cap_table_df,              \* FinancialModel.cap_table_df, or <<>> (None)
    returned,                  \* what the last call on the cap table or the
                               \* calculator returned to its caller, or <<>>
    first_run,                 \* the assumptions, the inputs and the results
                               \* of an earlier FinancialModel, or <<>>
    base_assumptions,          \* SensitivityAnalyzer.base_assumptions, or
                               \* <<>> when there is no analyzer
    in_call,                   \* the call of run_scenario or run_model in
                               \* progress with its arguments, or <<>>
    session_model              \* st.session_state.model: the results the
                               \* stored FinancialModel holds, or <<>> (None)

vars == <<assumptions, rounds, cap_table_history, pre_series_c_shares,
          pre_series_c_option_pool, exit_waterfall_df, waterfall_args,
          valuation_data, raised, pl_df, cap_table_df, returned, first_run,
          base_assumptions, in_call, session_model>>

\* the state of the FinancialModel around the cap table and the calculator
model_vars == <<pl_df, cap_table_df, returned, first_run>>

\* the state of the callers of a FinancialModel: the sensitivity analyzer
\* and the dashboard session
host_vars == <<base_assumptions, in_call, session_model>>

\* ------------------------------------------------------------------------
\* src/cap_table.py: CapTableManager._build_cap_table.  A local variable of
\* the method is a variable bound to the one value the method assigns it.
\* ------------------------------------------------------------------------
StakeholderNames ==
    <<"Founder", "Seed", "Series A", "Series B", "CLN Holder", "Series C",
      "Option Pool">>

\* the dict with no shares for the option pool
StakeholdersWithoutPool(founder, seed, a, b, cln, c, pool) ==
    [s \in {StakeholderNames[i] : i \in 1..Len(StakeholderNames)} |->
        CASE s = "Founder" -> founder
          [] s = "Seed" -> seed
          [] s = "Series A" -> a
          [] s = "Series B" -> b
          [] s = "CLN Holder" -> cln
          [] s = "Series C" -> c
          [] s = "Option Pool" -> Zero]

\* the dict in which the Series C shares are taken from the Founder
StakeholdersFounderSells(founder, seed, a, b, cln, c, pool) ==
    [s \in {StakeholderNames[i] : i \in 1..Len(StakeholderNames)} |->
        CASE s = "Founder" -> QSub(founder, c)
          [] s = "Seed" -> seed
          [] s = "Series A" -> a
          [] s = "Series B" -> b
          [] s = "CLN Holder" -> cln
          [] s = "Series C" -> c
          [] s = "Option Pool" -> pool]

\* the 'stakeholders' dict of a round
Stakeholders(founder, seed, a, b, cln, c, pool) ==
    [s \in {StakeholderNames[i] : i \in 1..Len(StakeholderNames)} |->
        CASE s = "Founder" -> founder
          [] s = "Seed" -> seed
          [] s = "Series A" -> a
          [] s = "Series B" -> b
          [] s = "CLN Holder" -> cln
          [] s = "Series C" -> c
          [] s = "Option Pool" -> pool]

\* a note round that issues one share for every pound of the note
NoteRoundIssuingShares(year, investment, total_shares_b, stakeholders_b) ==
    [year |-> year, round |-> "CLN",
     investment |-> investment,
     pre_money_val |-> Zero,
     post_money_val |-> Zero,
     price_per_share |-> Zero,
     shares_issued_this_round |-> investment,
     total_shares |-> QAdd(total_shares_b, investment),
     option_pool_created |-> Zero,
     stakeholders |-> [stakeholders_b EXCEPT !["CLN Holder"] = investment]]

\* round_5 and round_6, the rounds of the convertible notes: no shares
\* are issued, the total and the stakeholders are those of Series B
NoteRound(year, investment, total_shares_b, stakeholders_b) ==
    [year |-> year, round |-> "CLN",
     investment |-> investment,
     pre_money_val |-> Zero,
     post_money_val |-> Zero,
     price_per_share |-> Zero,
     shares_issued_this_round |-> Zero,
     total_shares |-> total_shares_b,
     option_pool_created |-> Zero,
     stakeholders |-> stakeholders_b]

founder_shares == 10000000
founder_investment == 661000

seed_investment == 3500000
\* a post-money valuation below the investment
seed_post_money_below_investment == seed_investment - 500000
seed_post_money == 20000000
series_a_investment == 10300000
series_a_post_money == 50000000
series_b_investment == 36900000
series_b_post_money == 166000000

build_cap_table(self_rounds, self_cap_table_history, self_pre_series_c_shares, self_pre_series_c_option_pool) ==
    \E round_1 \in
           {[year |-> 2018, round |-> "Founder",
             investment |-> Q(founder_investment),
             pre_money_val |-> Zero,
             post_money_val |-> Q(founder_investment),
             price_per_share |->
                 QDiv(Q(founder_investment), Q(founder_shares)),
             shares_issued_this_round |-> Q(founder_shares),
             total_shares |-> Q(founder_shares),
             option_pool_created |-> Zero,
             stakeholders |->
                 Stakeholders(Q(founder_shares), Zero, Zero, Zero, Zero, Zero,
                              Zero)]} :
    \E seed_pre_money \in {QSub(Q(seed_post_money), Q(seed_investment))} :
    \E seed_price_per_share \in {QDiv(seed_pre_money, Q(founder_shares))} :
    \E seed_investor_shares \in
           {QDiv(Q(seed_investment), seed_price_per_share)} :
    \E shares_after_seed \in {QAdd(Q(founder_shares), seed_investor_shares)} :
    \E option_pool_shares \in
           {QDiv(QMul(shares_after_seed, QF(15, 100)), QF(85, 100))} :
    \E total_shares_seed \in {QAdd(shares_after_seed, option_pool_shares)} :
    \E round_2 \in
           {[year |-> 2019, round |-> "Seed",
             investment |-> Q(seed_investment),
             pre_money_val |-> seed_pre_money,
             post_money_val |-> Q(seed_post_money),
             price_per_share |-> seed_price_per_share,
             shares_issued_this_round |-> seed_investor_shares,
             total_shares |-> total_shares_seed,
             option_pool_created |-> option_pool_shares,
             stakeholders |->
                 Stakeholders(Q(founder_shares), seed_investor_shares, Zero,
                              Zero, Zero, Zero, option_pool_shares)]} :
    \E series_a_pre_money \in
           {QSub(Q(series_a_post_money), Q(series_a_investment))} :
    \E series_a_price_per_share \in
           {QDiv(series_a_pre_money, total_shares_seed)} :
    \E series_a_investor_shares \in
           {QDiv(Q(series_a_investment), series_a_price_per_share)} :
    \E shares_after_a \in {QAdd(total_shares_seed, series_a_investor_shares)} :
    \E target_option_pool_a \in
           {QDiv(QMul(shares_after_a, QF(15, 100)), QF(85, 100))} :
    \E option_pool_top_up_a \in
           {QSub(target_option_pool_a, option_pool_shares)} :
    \E total_shares_a \in {QAdd(shares_after_a, option_pool_top_up_a)} :
    \E round_3 \in
           {[year |-> 2020, round |-> "Series A",
             investment |-> Q(series_a_investment),
             pre_money_val |-> series_a_pre_money,
             post_money_val |-> Q(series_a_post_money),
             price_per_share |-> series_a_price_per_share,
             shares_issued_this_round |-> series_a_investor_shares,
             total_shares |-> total_shares_a,
             option_pool_created |-> option_pool_top_up_a,
             stakeholders |->
                 Stakeholders(Q(founder_shares), seed_investor_shares,
                              series_a_investor_shares, Zero, Zero, Zero,
                              target_option_pool_a)]} :
    \E series_b_pre_money \in
           {QSub(Q(series_b_post_money), Q(series_b_investment))} :
    \E series_b_price_per_share \in
           {QDiv(series_b_pre_money, total_shares_a)} :
    \E series_b_investor_shares \in
           {QDiv(Q(series_b_investment), series_b_price_per_share)} :
    \E shares_after_b \in {QAdd(total_shares_a, series_b_investor_shares)} :
    \E target_option_pool_b \in
           {QDiv(QMul(shares_after_b, QF(15, 100)), QF(85, 100))} :
    \E option_pool_top_up_b \in
           {QSub(target_option_pool_b, target_option_pool_a)} :
    \E total_shares_b \in {QAdd(shares_after_b, option_pool_top_up_b)} :
    \E round_4 \in
           {[year |-> 2021, round |-> "Series B",
             investment |-> Q(series_b_investment),
             pre_money_val |-> series_b_pre_money,
             post_money_val |-> Q(series_b_post_money),
             price_per_share |-> series_b_price_per_share,
             shares_issued_this_round |-> series_b_investor_shares,
             total_shares |-> total_shares_b,
             option_pool_created |-> option_pool_top_up_b,
             stakeholders |->
                 Stakeholders(Q(founder_shares), seed_investor_shares,
                              series_a_investor_shares,
                              series_b_investor_shares, Zero, Zero,
                              target_option_pool_b)]} :
    \E round_5 \in
           {NoteRound(2024, Q(6000000), total_shares_b,
                      Stakeholders(Q(founder_shares), seed_investor_shares,
                                   series_a_investor_shares,
                                   series_b_investor_shares, Zero, Zero,
                                   target_option_pool_b))} :
    \E round_6 \in
           {NoteRound(2025, Q(4000000), total_shares_b,
                      Stakeholders(Q(founder_shares), seed_investor_shares,
                                   series_a_investor_shares,
                                   series_b_investor_shares, Zero, Zero,
                                   target_option_pool_b))} :
        /\ self_rounds
               = <<round_1, round_2, round_3, round_4, round_5, round_6>>
        /\ self_cap_table_history = <<round_1, round_2, round_3, round_4>>
        /\ self_pre_series_c_shares = total_shares_b
        /\ self_pre_series_c_option_pool = target_option_pool_b

\* The number of add_series_c_round calls that append a round
MaxSeriesCCalls == 2

\* FinancialModel.__init__: CapTableManager.__init__ followed by
\* _build_cap_table, and the results set to None
Init ==
    /\ assumptions \in ModelAssumptions
    /\ build_cap_table(rounds, cap_table_history, pre_series_c_shares,
                       pre_series_c_option_pool)
    /\ exit_waterfall_df = <<>>
    /\ waterfall_args = <<>>
    /\ valuation_data = <<>>
    /\ raised = "none"
    /\ pl_df = <<>>
    /\ cap_table_df = <<>>
    /\ returned = <<>>
    /\ first_run = <<>>
    /\ base_assumptions = <<>>
    /\ in_call = <<>>
    /\ session_model = <<>>

\* ------------------------------------------------------------------------
\* src/cap_table.py: CapTableManager.add_series_c_round
\* ------------------------------------------------------------------------
\* ARR at the close of Series C, as run_projections reads it from the P&L
\* (0 when the P&L has no row for the close year)
ArrAtClose == {Q(0), Q(10900000)}

\* the convertible tranche priced into shares with the equity tranche
SeriesCEquityWithConvertible(series_c) ==
    QMul(series_c.amount, QAdd(series_c.equity_pct, series_c.convertible_pct))

\* series_c_equity: the equity portion only, the tranche that buys shares
SeriesCEquity(series_c) == QMul(series_c.amount, series_c.equity_pct)

\* the notes converting at the price the Series C investors pay
ClnPriceWithoutDiscount(series_c_price_per_share) == series_c_price_per_share

\* cln_discount_price: the Series C price less the 20% discount
ClnDiscountPrice(series_c_price_per_share) ==
    QMul(series_c_price_per_share, QF(8, 10))

\* The year 2026, the principals 6_000_000 and 4_000_000, the rate 1.08 and
\* the discount 0.8 are literals of the method, not read from the
\* assumptions.  series_c_equity / series_c_price_per_share is the first
\* division by the price: with a price of 0 it raises ZeroDivisionError and
\* nothing is appended.
add_series_c_round(arr_at_close) ==
    /\ Len(rounds) < 6 + MaxSeriesCCalls
    /\ UNCHANGED <<assumptions, pre_series_c_shares,
                   pre_series_c_option_pool, exit_waterfall_df,
                   waterfall_args, valuation_data>>
    /\ \E pre_money_val \in
              {QMul(arr_at_close,
                    assumptions.series_c.pre_money_arr_multiple)} :
       \E cln_2024_with_interest \in
              {QMul(Q(6000000),
                    QPow(QF(108, 100),
                         assumptions.series_c.close_year - 2024))} :
       \E cln_2024_converted \in {QMul(cln_2024_with_interest, QF(8, 10))} :
       \E cln_2025_with_interest \in
              {QMul(Q(4000000),
                    QPow(QF(108, 100),
                         assumptions.series_c.close_year - 2025))} :
       \E cln_2025_converted \in {QMul(cln_2025_with_interest, QF(8, 10))} :
       \E series_c_equity \in {SeriesCEquity(assumptions.series_c)} :
       \E total_dilutive_capital \in
              {QAdd(QAdd(series_c_equity, cln_2024_converted),
                    cln_2025_converted)} :
       \E post_money_val \in {QAdd(pre_money_val, total_dilutive_capital)} :
       \E series_c_price_per_share \in
              {QDiv(pre_money_val, pre_series_c_shares)} :
           IF QIsZero(series_c_price_per_share)
           THEN /\ raised' = "ZeroDivisionError"
                /\ UNCHANGED <<rounds, cap_table_history>>
           ELSE
       \E series_c_equity_shares \in
              {QDiv(series_c_equity, series_c_price_per_share)} :
       \E cln_discount_price \in
              {ClnDiscountPrice(series_c_price_per_share)} :
       \E cln_2024_shares \in {QDiv(cln_2024_converted, cln_discount_price)} :
       \E cln_2025_shares \in {QDiv(cln_2025_converted, cln_discount_price)} :
       \E total_series_c_shares \in
              {QAdd(QAdd(series_c_equity_shares, cln_2024_shares),
                    cln_2025_shares)} :
       \E shares_after_c_before_options \in
              {QAdd(pre_series_c_shares, total_series_c_shares)} :
       \E target_option_pool_shares \in
              {QDiv(QMul(shares_after_c_before_options, QF(15, 100)),
                    QF(85, 100))} :
       \E option_pool_top_up \in
              {QSub(target_option_pool_shares, pre_series_c_option_pool)} :
       \E total_shares_c \in
              {QAdd(shares_after_c_before_options, option_pool_top_up)} :
       \E round_7 \in
              {[year |-> 2026, round |-> "Series C",
                investment |-> series_c_equity,
                pre_money_val |-> pre_money_val,
                post_money_val |-> post_money_val,
                price_per_share |-> series_c_price_per_share,
                shares_issued_this_round |-> total_series_c_shares,
                total_shares |-> total_shares_c,
                option_pool_created |-> option_pool_top_up,
                cln_2024_converted |-> cln_2024_converted,
                cln_2025_converted |-> cln_2025_converted,
                debt_component |->
                    QMul(assumptions.series_c.amount,
                         assumptions.series_c.debt_pct),
                convertible_component |->
                    QMul(assumptions.series_c.amount,
                         assumptions.series_c.convertible_pct),
                stakeholders |->
                    Stakeholders(rounds[4].stakeholders["Founder"],
                                 rounds[4].stakeholders["Seed"],
                                 rounds[4].stakeholders["Series A"],
                                 rounds[4].stakeholders["Series B"],
                                 QAdd(cln_2024_shares, cln_2025_shares),
                                 series_c_equity_shares,
                                 target_option_pool_shares)]} :
           /\ raised' = "none"
           /\ rounds' = Append(rounds, round_7)
           /\ cap_table_history' = Append(cap_table_history, round_7)

\* ------------------------------------------------------------------------
\* src/cap_table.py: CapTableManager.calculate_ownership_percentages
\* ------------------------------------------------------------------------
\* sum of the rationals s[i], ..., s[Len(s)] added to acc, which is
\* evaluated before the next is added
RECURSIVE QSumLoop(_, _, _)
QSumLoop(s, i, acc) ==
    IF i > Len(s) \/ Len(acc.d) = 0 THEN acc
    ELSE QSumLoop(s, i + 1, QAdd(acc, s[i]))

\* Python's sum()
Sum(s) == QSumLoop(s, 1, Zero)

\* the rows of the final round's stakeholders that hold shares, in the
\* order of the stakeholders dict, then the TOTAL row
calculate_ownership_percentages ==
    LET final_round == rounds[Len(rounds)]
        total_shares == final_round.total_shares
        stakeholders == final_round.stakeholders
        held == SelectSeq(StakeholderNames,
                          LAMBDA stakeholder : QPos(stakeholders[stakeholder]))
        ownership_data ==
            [i \in 1..Len(held) |->
                [Stakeholder |-> held[i],
                 Shares |-> stakeholders[held[i]],
                 OwnershipPct |->
                     IF QPos(total_shares)
                     THEN QMul(QDiv(stakeholders[held[i]], total_shares),
                               Q(100))
                     ELSE Zero]]
    IN  IF Len(rounds) = 0 THEN <<>>
        ELSE ownership_data
             \o <<[Stakeholder |-> "TOTAL",
                   Shares |->
                       Sum([i \in 1..Len(held) |-> ownership_data[i].Shares]),
                   OwnershipPct |->
                       Sum([i \in 1..Len(held) |->
                               ownership_data[i].OwnershipPct])]>>

\* ------------------------------------------------------------------------
\* src/exit_waterfall.py: ExitWaterfallCalculator
\* ------------------------------------------------------------------------
\* arr_valuation > ebitda_valuation in place of >=
calculate_exit_valuation_strict(exit_year_arr, exit_year_ebitda) ==
    LET arr_valuation == QMul(exit_year_arr, assumptions.exit.arr_multiple)
        ebitda_valuation ==
            QMul(exit_year_ebitda, assumptions.exit.ebitda_multiple)
        arr_selected ==
            IF assumptions.exit.valuation_basis = "arr" THEN TRUE
            ELSE IF assumptions.exit.valuation_basis = "ebitda" THEN FALSE
            ELSE QLt(ebitda_valuation, arr_valuation)
        valuation_method ==
            IF assumptions.exit.valuation_basis = "arr" THEN "ARR"
            ELSE IF assumptions.exit.valuation_basis = "ebitda" THEN "EBITDA"
            ELSE IF arr_selected THEN "Higher of ARR/EBITDA (ARR Selected)"
            ELSE "Higher of ARR/EBITDA (EBITDA Selected)"
    IN  [arr_valuation |-> arr_valuation,
         ebitda_valuation |-> ebitda_valuation,
         final_valuation |->
             IF arr_selected THEN arr_valuation ELSE ebitda_valuation,
         valuation_method |-> valuation_method]

\* any basis other than "arr" and "ebitda" takes the higher valuation,
\* arr_valuation >= ebitda_valuation selecting ARR
calculate_exit_valuation(exit_year_arr, exit_year_ebitda) ==
    LET arr_valuation == QMul(exit_year_arr, assumptions.exit.arr_multiple)
        ebitda_valuation ==
            QMul(exit_year_ebitda, assumptions.exit.ebitda_multiple)
        arr_selected ==
            IF assumptions.exit.valuation_basis = "arr" THEN TRUE
            ELSE IF assumptions.exit.valuation_basis = "ebitda" THEN FALSE
            ELSE QLe(ebitda_valuation, arr_valuation)
        valuation_method ==
            IF assumptions.exit.valuation_basis = "arr" THEN "ARR"
            ELSE IF assumptions.exit.valuation_basis = "ebitda" THEN "EBITDA"
            ELSE IF arr_selected THEN "Higher of ARR/EBITDA (ARR Selected)"
            ELSE "Higher of ARR/EBITDA (EBITDA Selected)"
    IN  [arr_valuation |-> arr_valuation,
         ebitda_valuation |-> ebitda_valuation,
         final_valuation |->
             IF arr_selected THEN arr_valuation ELSE ebitda_valuation,
         valuation_method |-> valuation_method]

\* component * (1 + rate) ** years_outstanding for a rolled-up instrument
Balance(component, rate, profile, years_outstanding) ==
    IF profile = "rolled_up"
    THEN QMul(component, QPow(QAdd(One, rate), years_outstanding))
    ELSE component

\* the dict of obligations, as the sequence of its items in insertion order
calculate_debt_to_repay(exit_year) ==
    LET hf == assumptions.historical_funding
        sc == assumptions.series_c
    IN  (IF exit_year >= 2024
         THEN <<[name |-> "CLN 2024",
                 balance |-> Balance(hf.cln_2024, hf.cln_2024_interest,
                                     "rolled_up", exit_year - 2024)]>>
         ELSE <<>>)
        \o (IF exit_year >= 2025
            THEN <<[name |-> "CLN 2025",
                    balance |-> Balance(hf.cln_2025, hf.cln_2025_interest,
                                        "rolled_up", exit_year - 2025)]>>
            ELSE <<>>)
        \o (IF exit_year >= sc.close_year
            THEN <<[name |-> "Series C Debt",
                    balance |-> Balance(QMul(sc.amount, sc.debt_pct),
                                        sc.debt_interest_rate,
                                        sc.debt_repayment_profile,
                                        exit_year - sc.close_year)]>>
            ELSE <<>>)
        \o (IF exit_year >= sc.close_year
            THEN <<[name |-> "Series C Convertible",
                    balance |-> Balance(QMul(sc.amount, sc.convertible_pct),
                                        sc.convertible_interest_rate,
                                        sc.convertible_repayment_profile,
                                        exit_year - sc.close_year)]>>
            ELSE <<>>)

\* ((moic ** (1 / years_held)) - 1) * 100 is kept as its operands: a root
\* is not a rational.  zero is the value 0 of the else branch.
Irr_from_year_zero(moic, years_held) ==
    IF years_held >= 0 /\ QPos(moic)
    THEN [zero |-> FALSE, moic |-> moic, years_held |-> years_held]
    ELSE [zero |-> TRUE, moic |-> Zero, years_held |-> 0]

Irr(moic, years_held) ==
    IF years_held > 0 /\ QPos(moic)
    THEN [zero |-> FALSE, moic |-> moic, years_held |-> years_held]
    ELSE [zero |-> TRUE, moic |-> Zero, years_held |-> 0]

IrrZero == [zero |-> TRUE, moic |-> Zero, years_held |-> 0]

Moic(proceeds, invested) ==
    IF QPos(invested) THEN QDiv(proceeds, invested) ELSE Zero

\* the year a debt instrument was invested in and the amount invested
DebtInvestYear(name) ==
    IF name = "CLN 2024" THEN 2024
    ELSE IF name = "CLN 2025" THEN 2025
    ELSE assumptions.series_c.close_year

DebtInvested(name) ==
    IF name = "CLN 2024" THEN assumptions.historical_funding.cln_2024
    ELSE IF name = "CLN 2025" THEN assumptions.historical_funding.cln_2025
    ELSE IF name = "Series C Debt"
    THEN QMul(assumptions.series_c.amount, assumptions.series_c.debt_pct)
    ELSE QMul(assumptions.series_c.amount,
              assumptions.series_c.convertible_pct)

\* a row of the DataFrame
WaterfallRow(stakeholder, type, invested, proceeds, moic, irr) ==
    [Stakeholder |-> stakeholder,
     Type |-> type,
     AmountInvested |-> invested,
     Proceeds |-> proceeds,
     MoIC |-> QRound2(moic),
     IRR |-> irr]

DebtRowOf(obligation, years_held, invested, moic) ==
    WaterfallRow(obligation.name, "Debt", invested, obligation.balance, moic,
                 Irr(moic, years_held))

DebtRowFor(obligation, years_held, invested) ==
    DebtRowOf(obligation, years_held, invested,
              Moic(obligation.balance, invested))

DebtRow(obligation, exit_year) ==
    DebtRowFor(obligation, exit_year - DebtInvestYear(obligation.name),
               DebtInvested(obligation.name))

\* the rounds named like the stakeholder, and for the holders of the
\* notes the round in which the notes converted
RoundDataOfHolder(stakeholder_name) ==
    SelectSeq(cap_table_history,
              LAMBDA r : \/ r.round = stakeholder_name
                         \/ /\ stakeholder_name = "CLN Holder"
                            /\ r.round = "Series C")

\* the rounds of cap_table_history named like the stakeholder
RoundData(stakeholder_name) ==
    SelectSeq(cap_table_history, LAMBDA r : r.round = stakeholder_name)

\* the percentage taken for the fraction
ownership_pct_unscaled(row) == row.OwnershipPct
ownership_pct(row) == QDiv(row.OwnershipPct, Q(100))

EquityRowOf(stakeholder_name, proceeds, round_data, exit_year, moic) ==
    WaterfallRow(stakeholder_name, "Equity",
                 IF round_data # <<>> THEN round_data[1].investment ELSE Zero,
                 proceeds, moic,
                 IF round_data # <<>>
                 THEN Irr(moic, exit_year - round_data[1].year)
                 ELSE IrrZero)

EquityRowFor(stakeholder_name, proceeds, round_data, exit_year) ==
    EquityRowOf(stakeholder_name, proceeds, round_data, exit_year,
                IF round_data # <<>>
                THEN Moic(proceeds, round_data[1].investment)
                ELSE Zero)

EquityRow(row, to_equity, exit_year) ==
    EquityRowFor(row.Stakeholder, QMul(to_equity, ownership_pct(row)),
                 RoundData(row.Stakeholder), exit_year)

SummaryRowsOf(total_debt, to_equity, exit_valuation, total_debt_invested, total_equity_invested) ==
    <<WaterfallRow("TOTAL DEBT", "Summary", total_debt_invested, total_debt,
                   Moic(total_debt, total_debt_invested), IrrZero),
      WaterfallRow("TOTAL EQUITY", "Summary", total_equity_invested,
                   to_equity, Moic(to_equity, total_equity_invested),
                   IrrZero),
      [Stakeholder |-> "TOTAL PROCEEDS",
       Type |-> "Summary",
       AmountInvested |-> QAdd(total_debt_invested, total_equity_invested),
       Proceeds |-> exit_valuation,
       MoIC |-> Zero,
       IRR |-> IrrZero]>>

SummaryRows(total_debt, to_equity, exit_valuation) ==
    SummaryRowsOf(total_debt, to_equity, exit_valuation,
                  Sum(<<assumptions.historical_funding.cln_2024,
                        assumptions.historical_funding.cln_2025,
                        QMul(assumptions.series_c.amount,
                             assumptions.series_c.debt_pct),
                        QMul(assumptions.series_c.amount,
                             assumptions.series_c.convertible_pct)>>),
                  Sum([i \in 1..Len(cap_table_history) |->
                          cap_table_history[i].investment]))

\* the debt left out
proceeds_to_equity_gross(exit_valuation, total_debt) == exit_valuation
proceeds_to_equity(exit_valuation, total_debt) ==
    QSub(exit_valuation, total_debt)

\* <<exit_year_arr, exit_year_ebitda, exit_year>>: a valuation of 0, the
\* ARR valuation the higher, the EBITDA valuation the higher, both equal,
\* and an exit in the year Series C closes
ExitInputs ==
    {<<Q(0), Q(0), 2030>>,
     <<Q(20000000), Q(5000000), 2030>>,
     <<Q(10000000), Q(10000000), 2030>>,
     <<Q(40000000), Q(17000000), 2030>>,
     <<Q(20000000), Q(5000000), 2026>>}

\* FinancialModel.run_projections stores the DataFrame once per model.  The
\* rows are the debt rows, the equity rows (the rows of ownership_df but
\* the TOTAL row) and the summary rows.
calculate_waterfall(exit_year_arr, exit_year_ebitda, exit_year) ==
    /\ exit_waterfall_df = <<>>
    /\ \E valuation \in
              {calculate_exit_valuation(exit_year_arr, exit_year_ebitda)} :
       \E debt_obligations \in {calculate_debt_to_repay(exit_year)} :
       \E total_debt \in
              {Sum([i \in 1..Len(debt_obligations) |->
                       debt_obligations[i].balance])} :
       \E to_equity \in
              {proceeds_to_equity(valuation.final_valuation, total_debt)} :
       \E ownership_df \in {calculate_ownership_percentages} :
       \E equity \in
              {SelectSeq(ownership_df,
                         LAMBDA row : row.Stakeholder # "TOTAL")} :
           /\ valuation_data' = valuation
           /\ exit_waterfall_df' =
                  [i \in 1..Len(debt_obligations) |->
                      DebtRow(debt_obligations[i], exit_year)]
                  \o [i \in 1..Len(equity) |->
                         EquityRow(equity[i], to_equity, exit_year)]
                  \o SummaryRows(total_debt, to_equity,
                                 valuation.final_valuation)
    /\ waterfall_args' = <<exit_year_arr, exit_year_ebitda, exit_year>>
    /\ raised' = "none"
    /\ UNCHANGED <<assumptions, rounds, cap_table_history,
                   pre_series_c_shares, pre_series_c_option_pool>>

\* calls on one cap table and its calculator
Next ==
    \/ /\ \E arr_at_close \in ArrAtClose : add_series_c_round(arr_at_close)
       /\ UNCHANGED <<model_vars, host_vars>>
    \/ /\ \E args \in ExitInputs :
              calculate_waterfall(args[1], args[2], args[3])
       /\ UNCHANGED <<model_vars, host_vars>>

Spec == Init /\ [][Next]_vars

\* ------------------------------------------------------------------------
\* src/cap_table.py: the operations of CapTableManager that read the ledger
\* ------------------------------------------------------------------------
\* a row of the summary: its label and one value for every round
TableRow(label, values) == [label |-> label, values |-> values]

\* (shares / total) if total > 0 else 0
OwnershipOf(r, stakeholder) ==
    IF QPos(r.total_shares)
    THEN QDiv(r.stakeholders[stakeholder], r.total_shares)
    ELSE Zero

\* sum(r['stakeholders'].values()) / r['total_shares'] if that is > 0 else 0
TotalOwnershipOf(r) ==
    IF QPos(r.total_shares)
    THEN QDiv(Sum([j \in 1..Len(StakeholderNames) |->
                      r.stakeholders[StakeholderNames[j]]]),
              r.total_shares)
    ELSE Zero

\* the DataFrame of the summary: the column names ('' and str(year) of
\* every round) and the 24 rows
generate_cap_table_summary(ledger) ==
    [columns |-> <<"">> \o [i \in 1..Len(ledger) |-> ToString(ledger[i].year)],
     rows |->
         <<TableRow("Round", [i \in 1..Len(ledger) |-> ledger[i].round]),
           TableRow("Investment",
                    [i \in 1..Len(ledger) |-> ledger[i].investment]),
           TableRow("Pre-Money Valuation",
                    [i \in 1..Len(ledger) |-> ledger[i].pre_money_val]),
           TableRow("Post-Money Valuation",
                    [i \in 1..Len(ledger) |-> ledger[i].post_money_val]),
           TableRow("Shares Issued",
                    [i \in 1..Len(ledger) |->
                        ledger[i].shares_issued_this_round]),
           TableRow("Price per Share",
                    [i \in 1..Len(ledger) |-> ledger[i].price_per_share]),
           TableRow("Total Shares Outstanding",
                    [i \in 1..Len(ledger) |-> ledger[i].total_shares]),
           TableRow("Round - Shares", [i \in 1..Len(ledger) |-> ""])>>
         \o [j \in 1..Len(StakeholderNames) |->
                TableRow(StakeholderNames[j],
                         [i \in 1..Len(ledger) |->
                             ledger[i].stakeholders[StakeholderNames[j]]])]
         \o <<TableRow("Round - Ownership", [i \in 1..Len(ledger) |-> ""])>>
         \o [j \in 1..Len(StakeholderNames) |->
                TableRow(StakeholderNames[j],
                         [i \in 1..Len(ledger) |->
                             OwnershipOf(ledger[i], StakeholderNames[j])])]
         \o <<TableRow("Total Ownership",
                       [i \in 1..Len(ledger) |-> TotalOwnershipOf(ledger[i])])>>]

\* value / total_shares * 100 if total_shares > 0 else 0
PctOf(value, total_shares) ==
    IF QPos(total_shares) THEN QMul(QDiv(value, total_shares), Q(100)) ELSE Zero

\* the dict of the summary statistics of the final round
generate_summary(ledger) ==
    IF Len(ledger) = 0
    THEN <<>>
    ELSE [total_equity_raised |->
              Sum([i \in 1..Len(ledger) |->
                      IF QPos(ledger[i].investment)
                      THEN ledger[i].investment
                      ELSE Zero]),
          final_valuation |-> ledger[Len(ledger)].post_money_val,
          total_shares |-> ledger[Len(ledger)].total_shares,
          founder_ownership_pct |->
              PctOf(ledger[Len(ledger)].stakeholders["Founder"],
                    ledger[Len(ledger)].total_shares),
          option_pool_pct |->
              PctOf(ledger[Len(ledger)].stakeholders["Option Pool"],
                    ledger[Len(ledger)].total_shares)]

\* a caller's add_series_c_round: the method returns the round it appended
call_add_series_c_round(arr_at_close) ==
    /\ add_series_c_round(arr_at_close)
    /\ returned' = IF raised' = "none" THEN rounds'[Len(rounds')] ELSE <<>>
    /\ UNCHANGED <<pl_df, cap_table_df, first_run, host_vars>>

\* a caller's calculate_waterfall: the method returns the DataFrame
call_calculate_waterfall(exit_year_arr, exit_year_ebitda, exit_year) ==
    /\ calculate_waterfall(exit_year_arr, exit_year_ebitda, exit_year)
    /\ returned' = exit_waterfall_df'
    /\ UNCHANGED <<pl_df, cap_table_df, first_run, host_vars>>

\* the variables a method that only reads the ledger leaves alone
engine_vars ==
    <<assumptions, rounds, cap_table_history, pre_series_c_shares,
      pre_series_c_option_pool, exit_waterfall_df, waterfall_args,
      valuation_data, raised>>

call_generate_cap_table_summary ==
    /\ returned' = generate_cap_table_summary(rounds)
    /\ UNCHANGED <<engine_vars, pl_df, cap_table_df, first_run, host_vars>>

call_calculate_ownership_percentages ==
    /\ returned' = calculate_ownership_percentages
    /\ UNCHANGED <<engine_vars, pl_df, cap_table_df, first_run, host_vars>>

\* a summary that drops the final round from the ledger it has read
call_generate_summary_consuming ==
    /\ returned' = generate_summary(rounds)
    /\ rounds' = SubSeq(rounds, 1, Len(rounds) - 1)
    /\ UNCHANGED <<assumptions, cap_table_history, pre_series_c_shares,
                   pre_series_c_option_pool, exit_waterfall_df,
                   waterfall_args, valuation_data, raised, pl_df,
                   cap_table_df, first_run, host_vars>>

call_generate_summary ==
    /\ returned' = generate_summary(rounds)
    /\ UNCHANGED <<engine_vars, pl_df, cap_table_df, first_run, host_vars>>

\* any sequence of calls on one cap table and its calculator
NextCalls ==
    \/ \E arr_at_close \in ArrAtClose : call_add_series_c_round(arr_at_close)
    \/ \E args \in ExitInputs :
           call_calculate_waterfall(args[1], args[2], args[3])
    \/ call_generate_cap_table_summary
    \/ call_calculate_ownership_percentages
    \/ call_generate_summary

\* the defaults of the dataclasses
DefaultAssumptions ==
    [series_c |-> SeriesCAssumptions(<<QF(70, 100), QF(15, 100), QF(15, 100)>>),
     exit |-> ExitAssumptions("higher_of_arr_or_ebitda"),
     historical_funding |-> HistoricalFunding]

InitCalls == Init /\ assumptions = DefaultAssumptions

SpecCalls == InitCalls /\ [][NextCalls]_vars

\* ------------------------------------------------------------------------
\* src/financial_model.py: FinancialModel.run_projections, in the steps
\* that touch the cap table and the exit calculator, and a second
\* FinancialModel constructed after the first one has run.  The P&L, cash
\* flow, balance sheet and other projectors are not modelled: the P&L rows
\* are an input.
\* ------------------------------------------------------------------------
PlRow(year, arr, ebitda) == [Year |-> year, ARR |-> arr, EBITDA |-> ebitda]

\* P&L outputs: with the rows of the close year and of the exit year,
\* without the close year, without the exit year, and with a very small
\* and a very large ARR at the close
ProjectionOutputs ==
    {<<PlRow(2026, Q(10900000), QNeg(Q(2000000))),
       PlRow(2030, Q(20000000), Q(5000000))>>,
     <<PlRow(2030, Q(20000000), Q(5000000))>>,
     <<PlRow(2026, Q(10900000), QNeg(Q(2000000)))>>,
     <<PlRow(2026, QF(1, 100), QNeg(Q(2000000))),
       PlRow(2030, Q(40000000), Q(17000000))>>,
     <<PlRow(2026, QMul(Q(1000000), Q(1000000)), Q(1000000)),
       PlRow(2030, Q(10000000), Q(10000000))>>}

\* row[column].values[0] if len(row) > 0 else 0, for the rows of a year
ValueOrZero(df, year, column) ==
    IF Len(SelectSeq(df, LAMBDA row : row.Year = year)) > 0
    THEN SelectSeq(df, LAMBDA row : row.Year = year)[1][column]
    ELSE Zero

\* self.pl_df = self.pl_projector.project_full_pl()
run_projections_pl ==
    /\ pl_df = <<>>
    /\ pl_df' \in ProjectionOutputs
    /\ UNCHANGED <<engine_vars, cap_table_df, returned, first_run,
                   host_vars>>

\* the Series C round from the ARR of the close year, then the summary
run_projections_cap_table ==
    /\ pl_df # <<>>
    /\ cap_table_df = <<>>
    /\ raised = "none"
    /\ add_series_c_round(ValueOrZero(pl_df, assumptions.series_c.close_year,
                                      "ARR"))
    /\ cap_table_df' = IF raised' = "none"
                       THEN generate_cap_table_summary(rounds')
                       ELSE cap_table_df
    /\ UNCHANGED <<pl_df, returned, first_run, host_vars>>

\* the waterfall from the ARR and the EBITDA of the exit year
run_projections_exit ==
    /\ cap_table_df # <<>>
    /\ calculate_waterfall(
           ValueOrZero(pl_df, assumptions.exit.exit_year, "ARR"),
           ValueOrZero(pl_df, assumptions.exit.exit_year, "EBITDA"),
           assumptions.exit.exit_year)
    /\ UNCHANGED <<model_vars, host_vars>>

\* note terms other than the defaults
RestatedHistoricalFunding ==
    [cln_2024 |-> Q(5000000),
     cln_2024_interest |-> QF(10, 100),
     cln_2024_maturity |-> 2029,
     cln_2024_discount |-> QF(25, 100),
     cln_2025 |-> Q(3000000),
     cln_2025_interest |-> QF(6, 100),
     cln_2025_maturity |-> 2030,
     cln_2025_discount |-> QF(15, 100)]

\* the assumption sets of the second model: the same one, one with the
\* other structure mix, one with the other note terms
Reconfigured(a) ==
    {[a EXCEPT !.series_c = SeriesCAssumptions(mix)] : mix \in StructureMixes}
        \cup {[a EXCEPT !.historical_funding = RestatedHistoricalFunding]}

\* what a run has left when it has ended, with its waterfall or by raising
RunEnded == pl_df # <<>> /\ (raised # "none" \/ exit_waterfall_df # <<>>)

RunResults ==
    [assumptions |-> assumptions,
     pl_df |-> pl_df,
     rounds |-> rounds,
     cap_table_df |-> cap_table_df,
     exit_waterfall_df |-> exit_waterfall_df,
     valuation_data |-> valuation_data,
     raised |-> raised]

\* a second model that takes over the first model's cap table
second_model_on_first_cap_table ==
    /\ first_run = <<>>
    /\ RunEnded
    /\ first_run' = RunResults
    /\ assumptions' \in Reconfigured(assumptions)
    /\ exit_waterfall_df' = <<>>
    /\ waterfall_args' = <<>>
    /\ valuation_data' = <<>>
    /\ raised' = "none"
    /\ pl_df' = <<>>
    /\ cap_table_df' = <<>>
    /\ UNCHANGED <<rounds, cap_table_history, pre_series_c_shares,
                   pre_series_c_option_pool, returned, host_vars>>

\* FinancialModel(assumptions, path) once more, after the first model has
\* run: a new cap table is built and the results are None
second_model ==
    /\ first_run = <<>>
    /\ RunEnded
    /\ first_run' = RunResults
    /\ assumptions' \in Reconfigured(assumptions)
    /\ build_cap_table(rounds', cap_table_history', pre_series_c_shares',
                       pre_series_c_option_pool')
    /\ exit_waterfall_df' = <<>>
    /\ waterfall_args' = <<>>
    /\ valuation_data' = <<>>
    /\ raised' = "none"
    /\ pl_df' = <<>>
    /\ cap_table_df' = <<>>
    /\ UNCHANGED <<returned, host_vars>>

NextRuns ==
    \/ run_projections_pl
    \/ run_projections_cap_table
    \/ run_projections_exit
    \/ second_model

\* the first model has the default exit assumptions
InitRuns == Init /\ assumptions.exit = DefaultAssumptions.exit

SpecRuns == InitRuns /\ [][NextRuns]_vars

\* ------------------------------------------------------------------------
\* src/sensitivity_analysis.py: SensitivityAnalyzer.run_scenario, in the
\* steps of the FinancialModel it constructs and runs
\* ------------------------------------------------------------------------
\* a dict of assumption changes is the sequence of its items, a key path
\* the list key_path.split('.')
Change(key_path, value) == [key_path |-> key_path, value |-> value]

\* the calls: the base case, an exit multiple of the exit multiple
\* sensitivity, and a change of the valuation basis
Scenarios ==
    {[method |-> "run_scenario", scenario_name |-> "Base Case",
      assumption_changes |-> <<>>],
     [method |-> "run_scenario", scenario_name |-> "35x EBITDA",
      assumption_changes |->
          <<Change(<<"exit", "ebitda_multiple">>, Q(35))>>],
     [method |-> "run_scenario", scenario_name |-> "ARR basis",
      assumption_changes |->
          <<Change(<<"exit", "valuation_basis">>, "arr")>>]}

\* obj = getattr(scenario_assumptions, keys[0]); setattr(obj, keys[-1], value)
SetAttr(a, key_path, value) ==
    [a EXCEPT ![key_path[1]][key_path[2]] = value]

\* the changes from the i-th on applied to a
RECURSIVE ApplyChanges(_, _, _)
ApplyChanges(a, assumption_changes, i) ==
    IF i > Len(assumption_changes) THEN a
    ELSE ApplyChanges(SetAttr(a, assumption_changes[i].key_path,
                              assumption_changes[i].value),
                      assumption_changes, i + 1)

\* the changes applied to base_assumptions itself, the model constructed
\* on it
run_scenario_model_in_place(call) ==
    /\ base_assumptions # <<>>
    /\ in_call = <<>>
    /\ in_call' = call
    /\ base_assumptions'
           = ApplyChanges(base_assumptions, call.assumption_changes, 1)
    /\ assumptions' = base_assumptions'
    /\ build_cap_table(rounds', cap_table_history', pre_series_c_shares',
                       pre_series_c_option_pool')
    /\ exit_waterfall_df' = <<>>
    /\ waterfall_args' = <<>>
    /\ valuation_data' = <<>>
    /\ raised' = "none"
    /\ pl_df' = <<>>
    /\ cap_table_df' = <<>>
    /\ returned' = <<>>
    /\ UNCHANGED <<first_run, session_model>>

\* scenario_assumptions = copy.deepcopy(self.base_assumptions), the changes
\* applied to the copy, and FinancialModel(scenario_assumptions, path)
run_scenario_model(call) ==
    /\ base_assumptions # <<>>
    /\ in_call = <<>>
    /\ in_call' = call
    /\ assumptions'
           = ApplyChanges(base_assumptions, call.assumption_changes, 1)
    /\ build_cap_table(rounds', cap_table_history', pre_series_c_shares',
                       pre_series_c_option_pool')
    /\ exit_waterfall_df' = <<>>
    /\ waterfall_args' = <<>>
    /\ valuation_data' = <<>>
    /\ raised' = "none"
    /\ pl_df' = <<>>
    /\ cap_table_df' = <<>>
    /\ returned' = <<>>
    /\ UNCHANGED <<first_run, base_assumptions, session_model>>

\* profitable_years.iloc[0]['Year'] if len(profitable_years) > 0 else None:
\* the year in a list, the empty list for None
ProfitabilityYear(df) ==
    IF Len(SelectSeq(df, LAMBDA row : QPos(row.EBITDA))) > 0
    THEN <<SelectSeq(df, LAMBDA row : QPos(row.EBITDA))[1].Year>>
    ELSE <<>>

\* exit_arr * arr_multiple for the basis "arr", else
\* exit_ebitda * ebitda_multiple
ScenarioExitValuation(a, exit_arr, exit_ebitda) ==
    IF a.exit.valuation_basis = "arr"
    THEN QMul(exit_arr, a.exit.arr_multiple)
    ELSE QMul(exit_ebitda, a.exit.ebitda_multiple)

\* the dict run_scenario returns, without the metrics read from the cash
\* flow, the other metrics and the EBITDA margin column
ScenarioMetrics ==
    [scenario |-> in_call.scenario_name,
     profitability_year |-> ProfitabilityYear(pl_df),
     series_c_pre_money_val |->
         QMul(ValueOrZero(pl_df, assumptions.series_c.close_year, "ARR"),
              assumptions.series_c.pre_money_arr_multiple),
     exit_valuation |->
         ScenarioExitValuation(
             assumptions,
             ValueOrZero(pl_df, assumptions.exit.exit_year, "ARR"),
             ValueOrZero(pl_df, assumptions.exit.exit_year, "EBITDA")),
     exit_arr |-> ValueOrZero(pl_df, assumptions.exit.exit_year, "ARR"),
     exit_ebitda |-> ValueOrZero(pl_df, assumptions.exit.exit_year, "EBITDA")]

\* run_projections has returned: the metrics are extracted and returned;
\* the first scenario that returns is kept with its result
run_scenario_metrics ==
    /\ in_call # <<>>
    /\ in_call.method = "run_scenario"
    /\ exit_waterfall_df # <<>>
    /\ returned' = ScenarioMetrics
    /\ first_run' = IF first_run = <<>>
                     THEN [call |-> in_call, pl_df |-> pl_df,
                           returned |-> returned']
                     ELSE first_run
    /\ in_call' = <<>>
    /\ UNCHANGED <<engine_vars, pl_df, cap_table_df, base_assumptions,
                   session_model>>

\* run_projections has raised: run_scenario passes the exception on
run_scenario_raise ==
    /\ in_call # <<>>
    /\ in_call.method = "run_scenario"
    /\ raised # "none"
    /\ in_call' = <<>>
    /\ UNCHANGED <<engine_vars, model_vars, base_assumptions, session_model>>

NextScenarios ==
    \/ \E call \in Scenarios : run_scenario_model(call)
    \/ in_call # <<>> /\ run_projections_pl
    \/ in_call # <<>> /\ run_projections_cap_table
    \/ in_call # <<>> /\ run_projections_exit
    \/ run_scenario_metrics
    \/ run_scenario_raise

\* SensitivityAnalyzer(ModelAssumptions(), path): no FinancialModel yet
InitScenarios ==
    /\ base_assumptions = DefaultAssumptions
    /\ assumptions = <<>>
    /\ rounds = <<>>
    /\ cap_table_history = <<>>
    /\ pre_series_c_shares = <<>>
    /\ pre_series_c_option_pool = <<>>
    /\ exit_waterfall_df = <<>>
    /\ waterfall_args = <<>>
    /\ valuation_data = <<>>
    /\ raised = "none"
    /\ pl_df = <<>>
    /\ cap_table_df = <<>>
    /\ returned = <<>>
    /\ first_run = <<>>
    /\ in_call = <<>>
    /\ session_model = <<>>

SpecScenarios == InitScenarios /\ [][NextScenarios]_vars

\* ------------------------------------------------------------------------
\* src/streamlit_app_improved.py: the session of the dashboard.  The model
\* a Run Model click constructs is run in the steps of run_projections;
\* st.session_state.assumptions is the variable assumptions, the object the
\* stored model holds too.
\* ------------------------------------------------------------------------
\* what the stored model holds for the tabs
ModelResults ==
    [pl_df |-> pl_df,
     rounds |-> rounds,
     cap_table_df |-> cap_table_df,
     exit_waterfall_df |-> exit_waterfall_df,
     valuation_data |-> valuation_data]

\* the assumption sets the sidebar inputs are set to
SidebarAssumptions ==
    {[DefaultAssumptions EXCEPT !.series_c = SeriesCAssumptions(mix)] :
        mix \in StructureMixes}

\* the widgets of the sidebar write their values into the assumptions
sidebar_inputs ==
    /\ in_call = <<>>
    /\ assumptions' \in SidebarAssumptions
    /\ UNCHANGED <<rounds, cap_table_history, pre_series_c_shares,
                   pre_series_c_option_pool, exit_waterfall_df,
                   waterfall_args, valuation_data, raised, model_vars,
                   base_assumptions, in_call, session_model>>

\* Run Model: FinancialModel(assumptions, excel_file_path) inside the try;
\* loaded is whether the historical data could be read.  When it could
\* not, the except branch reports the error.
run_model(loaded) ==
    /\ in_call = <<>>
    /\ IF loaded
       THEN /\ in_call' = [method |-> "run_model"]
            /\ build_cap_table(rounds', cap_table_history',
                               pre_series_c_shares',
                               pre_series_c_option_pool')
            /\ exit_waterfall_df' = <<>>
            /\ waterfall_args' = <<>>
            /\ valuation_data' = <<>>
            /\ raised' = "none"
            /\ pl_df' = <<>>
            /\ cap_table_df' = <<>>
       ELSE /\ raised' = "Exception"
            /\ UNCHANGED <<rounds, cap_table_history, pre_series_c_shares,
                           pre_series_c_option_pool, exit_waterfall_df,
                           waterfall_args, valuation_data, pl_df,
                           cap_table_df, in_call>>
    /\ UNCHANGED <<assumptions, returned, first_run, base_assumptions,
                   session_model>>

\* the except branch storing the model whose run raised
run_model_except_storing ==
    /\ in_call # <<>>
    /\ in_call.method = "run_model"
    /\ raised # "none"
    /\ session_model' = ModelResults
    /\ in_call' = <<>>
    /\ UNCHANGED <<engine_vars, model_vars, base_assumptions>>

\* run_projections raised: the except branch reports the error
run_model_except ==
    /\ in_call # <<>>
    /\ in_call.method = "run_model"
    /\ raised # "none"
    /\ in_call' = <<>>
    /\ UNCHANGED <<engine_vars, model_vars, base_assumptions, session_model>>

\* run_projections returned: st.session_state.model = model
run_model_store ==
    /\ in_call # <<>>
    /\ in_call.method = "run_model"
    /\ exit_waterfall_df # <<>>
    /\ session_model' = ModelResults
    /\ in_call' = <<>>
    /\ UNCHANGED <<engine_vars, model_vars, base_assumptions>>

\* Reset: new assumptions, no model, and the script runs again
reset ==
    /\ in_call = <<>>
    /\ assumptions' = DefaultAssumptions
    /\ session_model' = <<>>
    /\ UNCHANGED <<rounds, cap_table_history, pre_series_c_shares,
                   pre_series_c_option_pool, exit_waterfall_df,
                   waterfall_args, valuation_data, raised, model_vars,
                   base_assumptions, in_call>>

\* what the Exit tab shows: a warning without a model, else the waterfall
display_exit_waterfall(model) ==
    IF model = <<>>
    THEN [warning |-> "Please run the model first", waterfall_df |-> <<>>]
    ELSE [warning |-> "", waterfall_df |-> model.exit_waterfall_df]

NextSession ==
    \/ sidebar_inputs
    \/ \E loaded \in BOOLEAN : run_model(loaded)
    \/ in_call # <<>> /\ run_projections_pl
    \/ in_call # <<>> /\ run_projections_cap_table
    \/ in_call # <<>> /\ run_projections_exit
    \/ run_model_except
    \/ run_model_store
    \/ reset

\* the script's first run: no model, ModelAssumptions()
InitSession ==
    /\ assumptions = DefaultAssumptions
    /\ rounds = <<>>
    /\ cap_table_history = <<>>
    /\ pre_series_c_shares = <<>>
    /\ pre_series_c_option_pool = <<>>
    /\ exit_waterfall_df = <<>>
    /\ waterfall_args = <<>>
    /\ valuation_data = <<>>
    /\ raised = "none"
    /\ pl_df = <<>>
    /\ cap_table_df = <<>>
    /\ returned = <<>>
    /\ first_run = <<>>
    /\ base_assumptions = <<>>
    /\ in_call = <<>>
    /\ session_model = <<>>

SpecSession == InitSession /\ [][NextSession]_vars

\* ------------------------------------------------------------------------
\* Calls on one cap table and its calculator, for a Series C that closes in
\* a year the dashboard's date input accepts
\* ------------------------------------------------------------------------
CloseYears == {2025, 2026, 2027}

DatedAssumptions ==
    {[DefaultAssumptions EXCEPT !.series_c.close_year = close_year] :
        close_year \in CloseYears}

InitDated ==
    /\ assumptions \in DatedAssumptions
    /\ build_cap_table(rounds, cap_table_history, pre_series_c_shares,
                       pre_series_c_option_pool)
    /\ exit_waterfall_df = <<>>
    /\ waterfall_args = <<>>
    /\ valuation_data = <<>>
    /\ raised = "none"
    /\ pl_df = <<>>
    /\ cap_table_df = <<>>
    /\ returned = <<>>
    /\ first_run = <<>>
    /\ base_assumptions = <<>>
    /\ in_call = <<>>
    /\ session_model = <<>>

SpecDated == InitDated /\ [][Next]_vars

\* ------------------------------------------------------------------------
\* src/bs_projector.py: BalanceSheetProjector.calculate_total_debt
\* ------------------------------------------------------------------------
\* the balances added to total_debt, in the order the method adds them:
\* the notes only before Series C has closed and up to their maturity
calculate_total_debt(year) ==
    LET hf == assumptions.historical_funding
        sc == assumptions.series_c
        series_c_closed == year >= sc.close_year
    IN  Sum((IF ~series_c_closed /\ year >= 2024
                 /\ year <= hf.cln_2024_maturity
             THEN <<Balance(hf.cln_2024, hf.cln_2024_interest, "rolled_up",
                            year - 2024)>>
             ELSE <<>>)
            \o (IF ~series_c_closed /\ year >= 2025
                    /\ year <= hf.cln_2025_maturity
                THEN <<Balance(hf.cln_2025, hf.cln_2025_interest,
                               "rolled_up", year - 2025)>>
                ELSE <<>>)
            \o (IF year >= sc.close_year
                THEN <<Balance(QMul(sc.amount, sc.debt_pct),
                               sc.debt_interest_rate,
                               sc.debt_repayment_profile,
                               year - sc.close_year)>>
                ELSE <<>>)
            \o (IF year >= sc.close_year
                THEN <<Balance(QMul(sc.amount, sc.convertible_pct),
                               sc.convertible_interest_rate,
                               sc.convertible_repayment_profile,
                               year - sc.close_year)>>
                ELSE <<>>))

\* ------------------------------------------------------------------------
\* Properties
\* ------------------------------------------------------------------------
StakeholderShares(r) ==
    Sum([i \in 1..Len(StakeholderNames) |-> r.stakeholders[StakeholderNames[i]]])

IsSeriesC(r) == r.round = "Series C"

\* C1: in every round of the ledger, as built and after the Series C
\* rounds that calls with a positive ARR append, the stakeholders' shares
\* add up to the round's total_shares.
C1_ShareConservation ==
    \A i \in 1..Len(rounds) : StakeholderShares(rounds[i]) = rounds[i].total_shares

\* two Series C rounds appended, the second with converted notes
C1_Witness ==
    /\ Len(rounds) >= 8
    /\ IsSeriesC(rounds[7])
    /\ IsSeriesC(rounds[8])
    /\ QPos(rounds[8].stakeholders["CLN Holder"])
    /\ QPos(rounds[8].price_per_share)

PoolFraction(r) == QDiv(r.stakeholders["Option Pool"], r.total_shares)

\* C5: after every round that tops up the option pool (Seed, Series A,
\* Series B, Series C) the Option Pool's shares are 0.15 of the round's
\* total_shares.
C5_OptionPoolTarget ==
    \A i \in 1..Len(rounds) :
        rounds[i].round \in {"Seed", "Series A", "Series B", "Series C"}
            => PoolFraction(rounds[i]) = QF(15, 100)

StructureMixSum ==
    Sum(<<assumptions.series_c.equity_pct, assumptions.series_c.debt_pct,
          assumptions.series_c.convertible_pct>>)

\* C9: while equity_pct + debt_pct + convertible_pct is not 1,
\* add_series_c_round fails (with a ConfigurationError) and appends
\* nothing, so the ledger holds no Series C round.
C9_FractionsChecked ==
    StructureMixSum # One => \A i \in 1..Len(rounds) : ~IsSeriesC(rounds[i])

\* C10: a call of add_series_c_round whose pre-money valuation
\* (arr_at_close * pre_money_arr_multiple) is zero or negative fails with
\* a ConfigurationError, without dividing by zero, and appends no round.
C10_PricingGuard ==
    [][(\E arr_at_close \in ArrAtClose :
           /\ ~QPos(QMul(arr_at_close,
                         assumptions.series_c.pre_money_arr_multiple))
           /\ add_series_c_round(arr_at_close))
       => (raised' = "ConfigurationError" /\ rounds' = rounds)]_vars

\* the rows of the waterfall df with the given stakeholder and type
RowsOf(df, stakeholder, type) ==
    SelectSeq(df, LAMBDA row : row.Stakeholder = stakeholder /\ row.Type = type)

SummaryProceeds(df, stakeholder) == RowsOf(df, stakeholder, "Summary")[1].Proceeds

HasWaterfall == exit_waterfall_df # <<>>

\* a step of calculate_waterfall
WaterfallStep == exit_waterfall_df = <<>> /\ exit_waterfall_df' # <<>>

\* C2: in every waterfall the TOTAL DEBT proceeds plus the TOTAL EQUITY
\* proceeds are the selected exit valuation, and so are the proceeds of
\* the TOTAL PROCEEDS row.
C2_WaterfallConservation ==
    HasWaterfall =>
        /\ QAdd(SummaryProceeds(exit_waterfall_df, "TOTAL DEBT"),
                SummaryProceeds(exit_waterfall_df, "TOTAL EQUITY"))
               = valuation_data.final_valuation
        /\ SummaryProceeds(exit_waterfall_df, "TOTAL PROCEEDS")
               = valuation_data.final_valuation

\* a waterfall after Series C with debt repaid and proceeds left for equity
C2_Witness ==
    /\ HasWaterfall
    /\ QPos(SummaryProceeds(exit_waterfall_df, "TOTAL DEBT"))
    /\ QPos(SummaryProceeds(exit_waterfall_df, "TOTAL EQUITY"))
    /\ RowsOf(exit_waterfall_df, "Series C", "Equity") # <<>>

\* C3: in a waterfall for an exit year at or after the Series C close
\* year, a note converted into shares at Series C (its holders have an
\* equity row) has no debt row.
C3_ConvertedNotesSkipped ==
    (/\ HasWaterfall
     /\ waterfall_args[3] >= assumptions.series_c.close_year
     /\ RowsOf(exit_waterfall_df, "CLN Holder", "Equity") # <<>>)
        => /\ RowsOf(exit_waterfall_df, "CLN 2024", "Debt") = <<>>
           /\ RowsOf(exit_waterfall_df, "CLN 2025", "Debt") = <<>>

\* C4: when the exit valuation is smaller than the total debt,
\* calculate_waterfall does not raise, no equity row and not the TOTAL
\* EQUITY row has negative proceeds, and a summary row reports the
\* shortfall, total debt minus exit valuation.
C4_NegativeProceedsClamped ==
    (/\ HasWaterfall
     /\ QLt(valuation_data.final_valuation,
            SummaryProceeds(exit_waterfall_df, "TOTAL DEBT")))
        => /\ raised = "none"
           /\ \A i \in 1..Len(exit_waterfall_df) :
                  exit_waterfall_df[i].Type = "Equity"
                      => ~QNegative(exit_waterfall_df[i].Proceeds)
           /\ SummaryProceeds(exit_waterfall_df, "TOTAL EQUITY") = Zero
           /\ \E i \in 1..Len(exit_waterfall_df) :
                  /\ exit_waterfall_df[i].Type = "Summary"
                  /\ exit_waterfall_df[i].Proceeds
                         = QSub(SummaryProceeds(exit_waterfall_df, "TOTAL DEBT"),
                                valuation_data.final_valuation)

EquityProceeds(df) ==
    LET equity == SelectSeq(df, LAMBDA row : row.Type = "Equity")
    IN  Sum([i \in 1..Len(equity) |-> equity[i].Proceeds])

\* the waterfall df distributes pro rata over the final round of the ledger
ProRata(df, ledger) ==
    LET final_round == ledger[Len(ledger)]
        to_equity == SummaryProceeds(df, "TOTAL EQUITY")
    IN  /\ \A i \in 1..Len(StakeholderNames) :
               LET rows == RowsOf(df, StakeholderNames[i], "Equity")
                   shares == final_round.stakeholders[StakeholderNames[i]]
               IN  IF QPos(shares)
                   THEN /\ Len(rows) = 1
                        /\ rows[1].Proceeds
                               = QMul(to_equity,
                                      QDiv(shares, final_round.total_shares))
                   ELSE rows = <<>>
        /\ EquityProceeds(df) = to_equity

\* C6: calculate_waterfall gives every stakeholder class that holds shares
\* in the final round proceeds_to_equity * (its shares / the round's
\* total_shares), a class without shares gets no row, and the equity
\* rows' proceeds add up to proceeds_to_equity.
C6_ProRataDistribution ==
    [][WaterfallStep => ProRata(exit_waterfall_df', rounds)]_vars

\* a waterfall after Series C, with proceeds for equity, in which the
\* converted notes' holders and the Series C investors have rows
C6_Witness ==
    /\ HasWaterfall
    /\ QPos(SummaryProceeds(exit_waterfall_df, "TOTAL EQUITY"))
    /\ RowsOf(exit_waterfall_df, "CLN Holder", "Equity") # <<>>
    /\ RowsOf(exit_waterfall_df, "Series C", "Equity") # <<>>
    /\ QPos(RowsOf(exit_waterfall_df, "Founder", "Equity")[1].Proceeds)

\* exit_year - the year of the investment of a debt or equity row;
\* 0 for an equity row without a round of its name
YearsHeld(row, exit_year) ==
    IF row.Type = "Debt"
    THEN exit_year - DebtInvestYear(row.Stakeholder)
    ELSE IF RoundData(row.Stakeholder) # <<>>
    THEN exit_year - RoundData(row.Stakeholder)[1].year
    ELSE 0

\* proceeds / invested before round(moic, 2)
UnroundedMoic(row) == Moic(row.Proceeds, row.AmountInvested)

ReturnRows(df) == {i \in 1..Len(df) : df[i].Type \in {"Debt", "Equity"}}

\* C7 as stated: in every debt and equity row MoIC is 0 when nothing was
\* invested, IRR is 0 when the holding period is not positive or MoIC is
\* not positive, and otherwise MoIC is proceeds / invested.
ReturnMetricsExact(df, exit_year) ==
    \A i \in ReturnRows(df) :
        /\ QIsZero(df[i].AmountInvested) => QIsZero(df[i].MoIC)
        /\ (YearsHeld(df[i], exit_year) <= 0 \/ ~QPos(df[i].MoIC))
               => df[i].IRR.zero
        /\ ~QIsZero(df[i].AmountInvested)
               => df[i].MoIC = QDiv(df[i].Proceeds, df[i].AmountInvested)

C7_ReturnMetricsExact ==
    [][WaterfallStep
           => ReturnMetricsExact(exit_waterfall_df', waterfall_args'[3])]_vars

\* C7 amended: MoIC is 0 when nothing was invested and otherwise
\* proceeds / invested rounded to two decimals; IRR is 0 when the holding
\* period is not positive or proceeds / invested is not positive.
ReturnMetricsRounded(df, exit_year) ==
    \A i \in ReturnRows(df) :
        /\ QIsZero(df[i].AmountInvested) => QIsZero(df[i].MoIC)
        /\ (YearsHeld(df[i], exit_year) <= 0 \/ ~QPos(UnroundedMoic(df[i])))
               => df[i].IRR.zero
        /\ ~QIsZero(df[i].AmountInvested)
               => df[i].MoIC
                      = QRound2(QDiv(df[i].Proceeds, df[i].AmountInvested))

C7_ReturnMetricsRounded ==
    [][WaterfallStep
           => ReturnMetricsRounded(exit_waterfall_df', waterfall_args'[3])]_vars

\* a waterfall with a row without investment, a row held for zero years
\* with a positive multiple, and a row with a computed IRR
C7_Witness ==
    /\ HasWaterfall
    /\ \E i \in ReturnRows(exit_waterfall_df) :
           QIsZero(exit_waterfall_df[i].AmountInvested)
    /\ \E i \in ReturnRows(exit_waterfall_df) :
           /\ exit_waterfall_df[i].Stakeholder = "Series C Debt"
           /\ waterfall_args[3] = assumptions.series_c.close_year
           /\ QPos(exit_waterfall_df[i].MoIC)
           /\ exit_waterfall_df[i].IRR.zero
    /\ \E i \in ReturnRows(exit_waterfall_df) : ~exit_waterfall_df[i].IRR.zero

\* C8: the basis "arr" selects the ARR valuation, "ebitda" the EBITDA
\* valuation, "higher_of_arr_or_ebitda" the larger of the two and ARR when
\* they are equal; the method returned names the valuation selected.
C8_ExitValuationBasis ==
    valuation_data # <<>> =>
        LET arr_valuation ==
                QMul(waterfall_args[1], assumptions.exit.arr_multiple)
            ebitda_valuation ==
                QMul(waterfall_args[2], assumptions.exit.ebitda_multiple)
            basis == assumptions.exit.valuation_basis
            final == valuation_data.final_valuation
            method == valuation_data.valuation_method
        IN  /\ basis = "arr" => final = arr_valuation /\ method = "ARR"
            /\ basis = "ebitda" => final = ebitda_valuation /\ method = "EBITDA"
            /\ (basis = "higher_of_arr_or_ebitda"
                    /\ QLe(ebitda_valuation, arr_valuation))
                   => /\ final = arr_valuation
                      /\ method = "Higher of ARR/EBITDA (ARR Selected)"
            /\ (basis = "higher_of_arr_or_ebitda"
                    /\ QLt(arr_valuation, ebitda_valuation))
                   => /\ final = ebitda_valuation
                      /\ method = "Higher of ARR/EBITDA (EBITDA Selected)"

\* the higher-of basis with two equal, positive valuations
C8_Witness ==
    /\ valuation_data # <<>>
    /\ assumptions.exit.valuation_basis = "higher_of_arr_or_ebitda"
    /\ valuation_data.arr_valuation = valuation_data.ebitda_valuation
    /\ QPos(valuation_data.final_valuation)

\* the P&L has a row for the year
HasRow(df, year) == \E i \in 1..Len(df) : df[i].Year = year

\* C11: a run whose P&L has no row for the Series C close year, or none
\* for the exit year, takes the missing ARR and EBITDA as 0 and does not
\* raise: neither the step that appends the Series C round nor the step
\* that computes the waterfall.
C11_MissingInputDegraded ==
    (/\ pl_df # <<>>
     /\ \/ ~HasRow(pl_df, assumptions.series_c.close_year)
        \/ ~HasRow(pl_df, assumptions.exit.exit_year))
        => raised = "none"

\* C13: every round after the first has total_shares equal to the
\* previous round's total_shares plus its own shares_issued_this_round.
C13_TotalSharesAccumulate ==
    \A i \in 2..Len(rounds) :
        rounds[i].total_shares
            = QAdd(rounds[i - 1].total_shares,
                   rounds[i].shares_issued_this_round)

\* a second model that was given the assumptions and the P&L rows of the
\* first one
SameInputs ==
    /\ first_run # <<>>
    /\ assumptions = first_run.assumptions
    /\ pl_df = first_run.pl_df

\* C12: a second model with the assumption set and the ARR and EBITDA
\* rows of the first one ends its run with the ledger, the waterfall, the
\* exit valuation and the outcome (completed or raised) of the first.
C12_Determinism ==
    (SameInputs /\ RunEnded)
        => /\ rounds = first_run.rounds
           /\ exit_waterfall_df = first_run.exit_waterfall_df
           /\ valuation_data = first_run.valuation_data
           /\ cap_table_df = first_run.cap_table_df
           /\ raised = first_run.raised

\* both runs completed on the same two-row P&L, with a Series C round and
\* a waterfall
C12_Witness ==
    /\ SameInputs
    /\ Len(pl_df) = 2
    /\ HasWaterfall
    /\ Len(rounds) = 7
    /\ IsSeriesC(rounds[7])
    /\ first_run.exit_waterfall_df # <<>>

\* C14: along the ledger total_shares never decreases: over the six
\* rounds as built, and over the Series C round that a run appends for
\* the ARR of its P&L (small, as projected, or large).
C14_MonotonicShares ==
    \A i \in 2..Len(rounds) :
        QLe(rounds[i - 1].total_shares, rounds[i].total_shares)

\* a Series C round priced from an ARR of 10^12, with more shares than
\* the note round before it
C14_Witness ==
    /\ Len(rounds) = 7
    /\ IsSeriesC(rounds[7])
    /\ QLt(Q(1000000000), rounds[7].pre_money_val)
    /\ QLt(rounds[6].total_shares, rounds[7].total_shares)
    /\ QLt(rounds[1].total_shares, rounds[2].total_shares)

\* the rounds of the convertible notes
IsNoteRound(r) == r.round = "CLN"

\* C15: the two note rounds (2024 and 2025) record zero shares issued
\* and zero option pool created, and have the total_shares and the
\* share count of every stakeholder of the Series B round.
C15_NoteRoundsIssueNothing ==
    \A i \in 1..Len(rounds) :
        IsNoteRound(rounds[i])
            => /\ i \in {5, 6}
               /\ rounds[i].shares_issued_this_round = Zero
               /\ rounds[i].option_pool_created = Zero
               /\ rounds[i].total_shares = rounds[4].total_shares
               /\ rounds[i].stakeholders = rounds[4].stakeholders

\* the ledger with both note rounds after a Series B round that issued
\* shares, and a Series C round appended after them
C15_Witness ==
    /\ Len(rounds) >= 7
    /\ rounds[4].round = "Series B"
    /\ QPos(rounds[4].stakeholders["Series B"])
    /\ IsNoteRound(rounds[5]) /\ rounds[5].year = 2024
    /\ IsNoteRound(rounds[6]) /\ rounds[6].year = 2025
    /\ IsSeriesC(rounds[7])

\* the option pool's shares before round i
PoolBefore(i) == rounds[i - 1].stakeholders["Option Pool"]

\* total shares before round i plus the new investor shares of round i
SharesAfterInvestment(i) ==
    QAdd(rounds[i - 1].total_shares, rounds[i].shares_issued_this_round)

\* shares_after_investment * t / (1 - t) with t = 0.15
PoolAfter(i) ==
    QDiv(QMul(SharesAfterInvestment(i), QF(15, 100)), QSub(One, QF(15, 100)))

\* C16: the Seed, Series A and Series B rounds have total_shares equal to
\* shares_after_investment + pool_after, and option_pool_created equal to
\* pool_after minus the pool before the round.
C16_TopUpArithmetic ==
    \A i \in 2..4 :
        /\ rounds[i].total_shares = QAdd(SharesAfterInvestment(i), PoolAfter(i))
        /\ rounds[i].option_pool_created = QSub(PoolAfter(i), PoolBefore(i))

\* the converted capital of a note from its configured terms:
\* principal * (1 + rate) ^ years_outstanding * (1 - discount)
ConfiguredConversion(principal, rate, discount, years_outstanding) ==
    QMul(QMul(principal, QPow(QAdd(One, rate), years_outstanding)),
         QSub(One, discount))

\* C17: every Series C round converts each note from the terms the
\* assumption set configures for it (HistoricalFunding cln_2024* and
\* cln_2025*: principal, annual interest rate and discount) with
\* years_outstanding = close year - issue year.
C17_NotesFromAssumptions ==
    \A i \in 1..Len(rounds) :
        IsSeriesC(rounds[i])
            => /\ rounds[i].cln_2024_converted
                      = ConfiguredConversion(
                            assumptions.historical_funding.cln_2024,
                            assumptions.historical_funding.cln_2024_interest,
                            assumptions.historical_funding.cln_2024_discount,
                            assumptions.series_c.close_year - 2024)
               /\ rounds[i].cln_2025_converted
                      = ConfiguredConversion(
                            assumptions.historical_funding.cln_2025,
                            assumptions.historical_funding.cln_2025_interest,
                            assumptions.historical_funding.cln_2025_discount,
                            assumptions.series_c.close_year - 2025)

\* the share counts of a round
ShareCounts(r) ==
    [shares_issued_this_round |-> r.shares_issued_this_round,
     total_shares |-> r.total_shares,
     option_pool_created |-> r.option_pool_created,
     stakeholders |-> r.stakeholders]

\* the second model's assumptions differ from the first one's in debt_pct
\* and convertible_pct, and in nothing else
OnlyDebtAndConvertibleChanged ==
    /\ first_run # <<>>
    /\ pl_df = first_run.pl_df
    /\ assumptions # first_run.assumptions
    /\ assumptions.series_c.amount = first_run.assumptions.series_c.amount
    /\ assumptions.series_c.equity_pct
           = first_run.assumptions.series_c.equity_pct
    /\ [assumptions EXCEPT
            !.series_c.debt_pct = first_run.assumptions.series_c.debt_pct,
            !.series_c.convertible_pct
                = first_run.assumptions.series_c.convertible_pct]
           = first_run.assumptions

\* C18: the shares a Series C round issues are the equity-tranche shares,
\* (amount * equity_pct) / (pre_money / total shares before the round),
\* plus the shares of the converted notes; and a model whose debt_pct and
\* convertible_pct differ from the first model's, with the same amount and
\* equity_pct, appends a Series C round with the same share counts.
C18_DebtTranchesIssueNoShares ==
    /\ \A i \in 7..Len(rounds) :
           rounds[i].shares_issued_this_round
               = QAdd(QDiv(QMul(assumptions.series_c.amount,
                                assumptions.series_c.equity_pct),
                           QDiv(rounds[i].pre_money_val,
                                rounds[6].total_shares)),
                      rounds[i].stakeholders["CLN Holder"])
    /\ (OnlyDebtAndConvertibleChanged /\ Len(rounds) = 7
            /\ Len(first_run.rounds) = 7)
           => ShareCounts(rounds[7]) = ShareCounts(first_run.rounds[7])

\* both models appended a Series C round; the second one has another
\* debt_pct and convertible_pct, recorded in the round's components
C18_Witness ==
    /\ OnlyDebtAndConvertibleChanged
    /\ Len(rounds) = 7
    /\ Len(first_run.rounds) = 7
    /\ rounds[7].debt_component # first_run.rounds[7].debt_component
    /\ rounds[7].convertible_component
           # first_run.rounds[7].convertible_component
    /\ QPos(rounds[7].stakeholders["CLN Holder"])
    /\ QPos(rounds[7].stakeholders["Series C"])

\* the stakeholder classes other than the option pool that hold shares
\* in round r
NonPoolHolders(r) ==
    {s \in {StakeholderNames[j] : j \in 1..Len(StakeholderNames)} :
        s # "Option Pool" /\ QPos(r.stakeholders[s])}

OwnershipFraction(r, s) == QDiv(r.stakeholders[s], r.total_shares)

\* the factor by which round i shrinks an ownership fraction that keeps
\* its share count
DilutionFactor(i) == QDiv(rounds[i - 1].total_shares, rounds[i].total_shares)

\* C19: in every round after the first, each class other than the option
\* pool that held shares in the previous round holds the same number of
\* shares, and the ownership fractions of these classes are their
\* fractions of the previous round times one common factor, which is not
\* above 1.
C19_ProportionalDilution ==
    \A i \in 2..Len(rounds) :
        /\ QLe(DilutionFactor(i), One)
        /\ \A s \in NonPoolHolders(rounds[i - 1]) :
               /\ rounds[i].stakeholders[s] = rounds[i - 1].stakeholders[s]
               /\ OwnershipFraction(rounds[i], s)
                      = QMul(OwnershipFraction(rounds[i - 1], s),
                             DilutionFactor(i))

\* a Series C round with converted notes and new investors has diluted
\* the Founder and the Series B investors, who held shares before it
C19_Witness ==
    /\ Len(rounds) = 7
    /\ IsSeriesC(rounds[7])
    /\ QPos(rounds[7].stakeholders["Series C"])
    /\ QPos(rounds[7].stakeholders["CLN Holder"])
    /\ {"Founder", "Series B"} \subseteq NonPoolHolders(rounds[6])
    /\ QLt(OwnershipFraction(rounds[7], "Founder"),
           OwnershipFraction(rounds[6], "Founder"))

\* ledger is a prefix of ledger_after
IsPrefix(ledger, ledger_after) ==
    /\ Len(ledger) <= Len(ledger_after)
    /\ SubSeq(ledger_after, 1, Len(ledger)) = ledger

\* C20: every call (add_series_c_round, generate_cap_table_summary,
\* calculate_ownership_percentages, generate_summary, calculate_waterfall)
\* leaves each round record of rounds and of cap_table_history with its
\* field values at its position; a call appends rounds or changes nothing
\* in the ledger.
C20_LedgerAppendOnly ==
    [][/\ IsPrefix(rounds, rounds')
       /\ IsPrefix(cap_table_history, cap_table_history')]_vars

\* two Series C rounds appended, a waterfall computed, and a summary
\* returned by the last call
C20_Witness ==
    /\ Len(rounds) = 8
    /\ Len(cap_table_history) = 6
    /\ HasWaterfall
    /\ returned # <<>>
    /\ returned = generate_summary(rounds)

\* C21: in every ledger state, as built and after any number of
\* add_series_c_round calls, no two rounds have the same year and the
\* years do not decrease in ledger order.
C21_YearsUniqueOrdered ==
    /\ \A i \in 1..Len(rounds) : \A j \in 1..Len(rounds) :
           i # j => rounds[i].year # rounds[j].year
    /\ \A i \in 2..Len(rounds) : rounds[i - 1].year <= rounds[i].year

\* C22: the Series C round is recorded at its configured close year: the
\* year of every appended Series C round is assumptions.series_c.close_year,
\* the year the notes' years outstanding and the Series C debt tranches
\* are counted from.
C22_SeriesCAtCloseYear ==
    \A i \in 1..Len(rounds) :
        IsSeriesC(rounds[i])
            => rounds[i].year = assumptions.series_c.close_year

\* C24: adding the Series C round is idempotent on one model: however often
\* add_series_c_round has been called, the ledger holds at most seven
\* rounds and at most one Series C round, and the TOTAL EQUITY row of a
\* waterfall counts the Series C investment once.
SeriesCRounds(ledger) == {i \in 1..Len(ledger) : IsSeriesC(ledger[i])}

C24_SeriesCIdempotent ==
    /\ Len(rounds) <= 7
    /\ Cardinality(SeriesCRounds(rounds)) <= 1
    /\ Cardinality(SeriesCRounds(cap_table_history)) <= 1
    /\ HasWaterfall =>
           \A i \in 1..Len(exit_waterfall_df) :
               exit_waterfall_df[i].Stakeholder = "TOTAL EQUITY"
                   => QLe(exit_waterfall_df[i].AmountInvested,
                          QAdd(Sum([j \in 1..4 |->
                                       cap_table_history[j].investment]),
                               SeriesCEquity(assumptions.series_c)))

\* the years of the projection
ProjectionYears == 2025..2030

\* sum(debt_obligations.values()) of the waterfall
TotalDebtToRepay(exit_year) ==
    Sum([i \in 1..Len(calculate_debt_to_repay(exit_year)) |->
            calculate_debt_to_repay(exit_year)[i].balance])

\* C26: the two debt calculations agree: for every exit year of the
\* projection range and every assumption set, the total of
\* calculate_debt_to_repay equals calculate_total_debt of the same year.
C26_DebtCalculationsAgree ==
    \A exit_year \in ProjectionYears :
        TotalDebtToRepay(exit_year) = calculate_total_debt(exit_year)

\* sum of Amount Invested over the rows of a type
InvestedOfType(df, type) ==
    LET detail == SelectSeq(df, LAMBDA row : row.Type = type)
    IN  Sum([i \in 1..Len(detail) |-> detail[i].AmountInvested])

SummaryInvested(df, stakeholder) ==
    RowsOf(df, stakeholder, "Summary")[1].AmountInvested

\* C28: in every waterfall the TOTAL DEBT row's Amount Invested is the sum
\* of Amount Invested over the Debt rows present, and the TOTAL EQUITY
\* row's Amount Invested is the sum over the Equity rows.
C28_SummaryMatchesDetail ==
    HasWaterfall =>
        /\ SummaryInvested(exit_waterfall_df, "TOTAL DEBT")
               = InvestedOfType(exit_waterfall_df, "Debt")
        /\ SummaryInvested(exit_waterfall_df, "TOTAL EQUITY")
               = InvestedOfType(exit_waterfall_df, "Equity")

\* the positions in the history of the rounds with a name
RoundsNamed(history, name) ==
    {j \in 1..Len(history) : history[j].round = name}

FirstRoundNamed(history, name) ==
    history[CHOOSE j \in RoundsNamed(history, name) :
                \A k \in RoundsNamed(history, name) : j <= k]

\* an equity row is sourced from the history: nothing when no round has
\* its name, else the investment and the year of the first such round
EquityRowSourced(row, history, exit_year) ==
    IF RoundsNamed(history, row.Stakeholder) = {}
    THEN /\ QIsZero(row.AmountInvested)
         /\ QIsZero(row.MoIC)
         /\ row.IRR.zero
    ELSE /\ row.AmountInvested
                = FirstRoundNamed(history, row.Stakeholder).investment
         /\ ~row.IRR.zero
                => row.IRR.years_held
                       = exit_year
                             - FirstRoundNamed(history, row.Stakeholder).year
         /\ row.IRR.zero
                => \/ exit_year
                          <= FirstRoundNamed(history, row.Stakeholder).year
                   \/ ~QPos(row.Proceeds)
                   \/ ~QPos(row.AmountInvested)

\* C29: an equity row whose stakeholder name matches no round of
\* cap_table_history (CLN Holder, Option Pool) reports Amount Invested 0,
\* MoIC 0 and IRR 0 whatever its proceeds; every other equity row takes its
\* invested amount and its investment year from the first round of
\* cap_table_history with its name.
C29_EquityRowsFromHistory ==
    [][WaterfallStep
           => \A i \in 1..Len(exit_waterfall_df') :
                  exit_waterfall_df'[i].Type = "Equity"
                      => EquityRowSourced(exit_waterfall_df'[i],
                                          cap_table_history,
                                          waterfall_args'[3])]_vars

\* a waterfall in which the holders of the converted notes receive
\* proceeds on a row without investment, the option pool has a row, and
\* the Series C row has the investment of the Series C round and an IRR
\* over the years since the round's year, which is not the close year
C29_Witness ==
    /\ HasWaterfall
    /\ assumptions.series_c.close_year = 2027
    /\ \E i \in 1..Len(exit_waterfall_df) :
           /\ exit_waterfall_df[i].Stakeholder = "CLN Holder"
           /\ exit_waterfall_df[i].Type = "Equity"
           /\ QPos(exit_waterfall_df[i].Proceeds)
           /\ QIsZero(exit_waterfall_df[i].AmountInvested)
           /\ exit_waterfall_df[i].IRR.zero
    /\ \E i \in 1..Len(exit_waterfall_df) :
           /\ exit_waterfall_df[i].Stakeholder = "Option Pool"
           /\ QPos(exit_waterfall_df[i].Proceeds)
    /\ \E i \in 1..Len(exit_waterfall_df) :
           /\ exit_waterfall_df[i].Stakeholder = "Series C"
           /\ exit_waterfall_df[i].AmountInvested
                  = SeriesCEquity(assumptions.series_c)
           /\ ~exit_waterfall_df[i].IRR.zero
           /\ exit_waterfall_df[i].IRR.years_held = waterfall_args[3] - 2026

\* the value of a note at the close of Series C: the principal with the
\* interest rolled up over the years the note was outstanding
AccruedValue(principal, interest, issued) ==
    QMul(principal,
         QPow(QAdd(One, interest), assumptions.series_c.close_year - issued))

AccruedNotes ==
    QAdd(AccruedValue(assumptions.historical_funding.cln_2024,
                      assumptions.historical_funding.cln_2024_interest, 2024),
         AccruedValue(assumptions.historical_funding.cln_2025,
                      assumptions.historical_funding.cln_2025_interest, 2025))

\* C25: the discount is applied to the converting capital and to the
\* conversion price alike, so the shares the notes receive are their
\* accrued value divided by the undiscounted Series C price per share,
\* whatever the discount; the discount shows in the recorded converted
\* capital and through it in the post-money valuation.
C25_DiscountCancels ==
    \A i \in 1..Len(rounds) :
        IsSeriesC(rounds[i]) =>
            /\ rounds[i].stakeholders["CLN Holder"]
                   = QDiv(AccruedNotes, rounds[i].price_per_share)
            /\ rounds[i].cln_2024_converted
                   = QMul(AccruedValue(
                              assumptions.historical_funding.cln_2024,
                              assumptions.historical_funding.cln_2024_interest,
                              2024),
                          QSub(One,
                               assumptions.historical_funding.cln_2024_discount))
            /\ rounds[i].cln_2025_converted
                   = QMul(AccruedValue(
                              assumptions.historical_funding.cln_2025,
                              assumptions.historical_funding.cln_2025_interest,
                              2025),
                          QSub(One,
                               assumptions.historical_funding.cln_2025_discount))
            /\ rounds[i].post_money_val
                   = QAdd(QAdd(rounds[i].pre_money_val, rounds[i].investment),
                          QAdd(rounds[i].cln_2024_converted,
                               rounds[i].cln_2025_converted))

\* a Series C round closing in 2027, three and two years after the
\* notes, in which the notes' holders have received shares for less
\* converted capital than the notes had accrued
C25_Witness ==
    /\ assumptions.series_c.close_year = 2027
    /\ \E i \in 1..Len(rounds) :
           /\ IsSeriesC(rounds[i])
           /\ QPos(rounds[i].stakeholders["CLN Holder"])
           /\ QLt(QAdd(rounds[i].cln_2024_converted,
                       rounds[i].cln_2025_converted),
                  AccruedNotes)

\* a step in which run_scenario returns its result
ScenarioReturns == in_call # <<>> /\ in_call' = <<>> /\ returned' # <<>>

\* C23: run_scenario applies its changes to a deep copy only: no step
\* changes base_assumptions, and a scenario that returns after any other
\* scenarios returns what the same scenario returned when it ran first on
\* the same projections.
C23_ScenarioIsolation ==
    [][/\ base_assumptions' = base_assumptions
       /\ (/\ ScenarioReturns
           /\ first_run # <<>>
           /\ first_run.call = in_call
           /\ first_run.pl_df = pl_df)
              => returned' = first_run.returned]_vars

\* a scenario with changed assumptions has returned after a different
\* scenario had, and the base assumptions are the ones the analyzer was
\* constructed with
C23_Witness ==
    /\ base_assumptions = DefaultAssumptions
    /\ in_call = <<>>
    /\ returned # <<>>
    /\ first_run # <<>>
    /\ first_run.call.assumption_changes # <<>>
    /\ returned.scenario # first_run.call.scenario_name
    /\ assumptions # base_assumptions

\* C27: the exit valuation run_scenario reports is the final_valuation
\* that calculate_exit_valuation returned to the scenario's model for the
\* same exit-year ARR and EBITDA, multiples and valuation basis, whatever
\* the basis.
C27_ScenarioExitValuation ==
    (in_call = <<>> /\ returned # <<>> /\ valuation_data # <<>>)
        => returned.exit_valuation = valuation_data.final_valuation

\* the results of a model whose run_projections has returned
CompletedRun(model) ==
    /\ model.pl_df # <<>>
    /\ model.cap_table_df # <<>>
    /\ model.exit_waterfall_df # <<>>
    /\ model.valuation_data # <<>>
    /\ Len(model.rounds) = 7

\* C30: across Run Model, Reset, sidebar inputs and failed runs, a stored
\* model is one whose run_projections completed; the stored model changes
\* only when a run completes, to that run's model, or to None at a Reset,
\* so a run that raises leaves it as it was; and after Reset the model is
\* None and the Exit tab shows the warning in place of results.
C30_SessionModel ==
    [][/\ session_model' # <<>> => CompletedRun(session_model')
       /\ (session_model' # session_model /\ session_model' # <<>>)
              => /\ in_call # <<>>
                 /\ raised = "none"
                 /\ exit_waterfall_df # <<>>
                 /\ session_model' = ModelResults
       /\ (in_call # <<>> /\ raised # "none")
              => session_model' = session_model
       /\ (in_call = <<>> /\ raised' # raised /\ raised' # "none")
              => session_model' = session_model
       /\ reset
              => /\ session_model' = <<>>
                 /\ display_exit_waterfall(session_model').waterfall_df = <<>>
                 /\ display_exit_waterfall(session_model').warning # ""]_vars

\* a model is stored, and a later run with other inputs has raised in
\* run_projections and has been reported
C30_Witness ==
    /\ session_model # <<>>
    /\ in_call = <<>>
    /\ raised = "ZeroDivisionError"
    /\ pl_df # session_model.pl_df
    /\ exit_waterfall_df = <<>>
    /\ display_exit_waterfall(session_model).waterfall_df # <<>>

====
